---- MODULE Spec2Model ----
(***************************************************************************)
(* crane-js: the DSL front end (src/dsl/index.js) that turns a grammar     *)
(* description into a Grammar and an action table, the canonical LR(1)     *)
(* table builder it calls (clr) and the push-based parser it generates.    *)
(*                                                                         *)
(* Production ids, state ids and list indices are 0-based as in the        *)
(* JavaScript; TLA+ sequences are 1-based, so id i lives at index i + 1.   *)
(***************************************************************************)
EXTENDS Integers, Sequences, FiniteSets, TLC

\* JS null / undefined in a string-valued field.
null == "null"

\* The virtual terminal finish() feeds to the automaton.
EndOfInput == "$end"

\* The most tokens one parse session is given.
MaxTokens == 4

(***************************************************************************)
(* The DSL's syntax tree, as toGrammar reads it.                           *)
(***************************************************************************)
Str(s) == [type |-> "string", value |-> s]

Id(s) == [type |-> "id", name |-> s]

ProdLine(rhs, code, prec) ==
    [type |-> "production", production |-> rhs, code |-> code, prec |-> prec]

DefLine(name, body) ==
    [type |-> "definition", name |-> [name |-> name], body |-> body]

\* A macro call in a production: name(args), each argument a list.
Call(name, args) == [type |-> "call", name |-> [name |-> name], args |-> args]

\* A dotted path to a non-terminal.
Address(path) == [type |-> "address", path |-> path]

PrecLine(assoc, toks) ==
    [type |-> assoc, tokens |-> [i \in DOMAIN toks |-> [value |-> toks[i]]]]

(***************************************************************************)
(* toGrammar                                                               *)
(***************************************************************************)
\* The mapper with none read as right.
precedenceMapperNoneAsRight(t) ==
    CASE t = "left" -> "LEFT"
      [] t = "right" -> "RIGHT"
      [] t = "none" -> "RIGHT"

\* The mapper with left read as none.
precedenceMapperLeftAsNone(t) ==
    CASE t = "left" -> "NONE"
      [] t = "right" -> "RIGHT"
      [] t = "none" -> "NONE"

precedenceMapper(t) ==
    CASE t = "left" -> "LEFT"
      [] t = "right" -> "RIGHT"
      [] t = "none" -> "NONE"

precedenceRegex(t) == t \in {"left", "right", "none"}

extractor(o) == [type |-> o.type, production |-> o.production, prec |-> o.prec]

EmptyVars == [n \in {} |-> ""]

\* vars[k] = v on a scope object.
Bind(vars, k, v) == [n \in (DOMAIN vars) \cup {k} |-> IF n = k THEN v ELSE vars[n]]

\* A queue that adds at its front.
enqueueFront(queue, d) == <<d>> \o queue

\* defs.enqueue(d)
enqueue(queue, d) == Append(queue, d)

\* The root entry with an action that wraps its symbol instead of passing
\* its value on.
RootEntryWrapping(rootName, ntType) ==
    [type |-> "$$$",
     production |-> <<IF rootName # null /\ rootName # "" THEN rootName ELSE ntType>>,
     code |-> "node",
     prec |-> null]

\* The entry pushed for the first definition met: the wrapper root production.
RootEntry(rootName, ntType) ==
    [type |-> "$$$",
     production |-> <<IF rootName # null /\ rootName # "" THEN rootName ELSE ntType>>,
     code |-> "$[0]",
     prec |-> null]

\* A root entry pushed whatever the list holds.
NeedsRootAlways(list) == TRUE

\* if (list.length === 0)
NeedsRoot(list) == Len(list) = 0

\* One pass of `for (let line of body)` from line k on.  acc carries
\* precedence, vars, list, the definitions enqueued, the productions
\* collected and the error thrown (null when none).
RECURSIVE ScanBody(_, _, _, _, _)
ScanBody(body, k, name, rootName, acc) ==
    IF k > Len(body) \/ acc.error # null THEN acc
    ELSE
    LET line == body[k]
        next ==
          IF precedenceRegex(line.type) THEN
              IF name # ""
              THEN [acc EXCEPT !.error = "Top-level precedence declarations only, please!"]
              ELSE [acc EXCEPT !.precedence = Append(@,
                       [tokens |-> [i \in DOMAIN line.tokens |-> line.tokens[i].value],
                        type |-> precedenceMapper(line.type)])]
          ELSE IF line.type = "definition" THEN
              LET ntType == IF name = "" THEN line.name.name
                            ELSE name \o "." \o line.name.name
              IN  [acc EXCEPT
                     !.vars = Bind(@, line.name.name, ntType),
                     !.list = IF NeedsRoot(@) THEN Append(@, RootEntry(rootName, ntType))
                              ELSE @,
                     !.kids = enqueue(@, [body |-> line.body, name |-> ntType])]
          ELSE IF line.type = "production" THEN
              IF name = ""
              THEN [acc EXCEPT !.error = "Top level productions not allowed!"]
              ELSE [acc EXCEPT !.productions = Append(@, line)]
          ELSE acc
    IN  ScanBody(body, k + 1, name, rootName, next)

\* rest.join('.')
RECURSIVE Join(_)
Join(path) ==
    IF Len(path) = 1 THEN path[1] ELSE path[1] \o "." \o Join(Tail(path))

\* localCtxt.resolvePath(path), with localCtxt.resolve on its first name.
resolvePath(vars, path) ==
    LET resolved == IF path[1] \in DOMAIN vars THEN vars[path[1]] ELSE path[1]
    IN  IF Len(path) = 1 THEN resolved ELSE resolved \o "." \o Join(Tail(path))

\* resolve(ctx, e): an address by its path, anything else by its value.
resolve(vars, e) ==
    IF e.type = "address" THEN resolvePath(vars, e.path)
    ELSE IF "value" \in DOMAIN e THEN e.value
    ELSE "undefined"

\* localCtxt.newId(): `$__${++i}`
newId(i) == "$__" \o ToString(i + 1)

\* context.multiple([e], [sep] = [null]): a new list non-terminal with its
\* three productions pushed on the list; its name is the handle.  (The
\* entries carry no prec.)
multiple(st, vars, args) ==
    LET name == newId(st.i)
        e == resolve(vars, args[1][1])
        more == IF Len(args) >= 2
                THEN [type |-> name, production |-> <<name, resolve(vars, args[2][1]), e>>,
                      code |-> "[...$[0], $[2]]", prec |-> null]
                ELSE [type |-> name, production |-> <<name, e>>,
                      code |-> "[...$[0], $[1]]", prec |-> null]
    IN  [st EXCEPT !.i = @ + 1,
                   !.handle = name,
                   !.list = @ \o <<[type |-> name, production |-> <<>>,
                                    code |-> "[]", prec |-> null],
                                   [type |-> name, production |-> <<e>>,
                                    code |-> "[$[0]]", prec |-> null],
                                   more>>]

\* A call reformed: the macro is run and its handle taken as the symbol.
Called(m, vars) ==
    IF m.handle \in DOMAIN vars THEN [m EXCEPT !.error = "Handle conflict error"]
    ELSE [m EXCEPT !.reformed = Append(@, m.handle)]

\* for (let e of p.production): the symbols of one production, resolved
\* against its scope; st carries the symbols so far, the list and the id
\* counter, which a macro call extends, and the error thrown.
RECURSIVE Reform(_, _, _)
Reform(production, vars, st) ==
    IF Len(production) = 0 \/ st.error # null THEN st
    ELSE
    LET e == Head(production)
        next ==
          IF e.type = "string" THEN [st EXCEPT !.reformed = Append(@, e.value)]
          ELSE IF e.type = "call" THEN
              IF e.name.name = "multiple" THEN Called(multiple(st, vars, e.args), vars)
              ELSE [st EXCEPT !.error = "TypeError"]
          ELSE IF e.type = "address" THEN
              IF e.path[1] \in DOMAIN vars
              THEN [st EXCEPT !.reformed = Append(@, resolvePath(vars, e.path))]
              ELSE [st EXCEPT !.error = "Non-terminal not defined"]
          ELSE IF e.type = "id" THEN
              IF e.name \in DOMAIN vars
              THEN [st EXCEPT !.reformed = Append(@, vars[e.name])]
              ELSE [st EXCEPT !.error = "Non-terminal not defined"]
          ELSE st
    IN  Reform(Tail(production), vars, next)

\* The list entry without the production's %prec.
ListEntryNoPrec(p, name, reformed) ==
    [type |-> name, production |-> reformed, code |-> p.code, prec |-> null]

\* list.push({type: name, production: reformed, code: p.code, prec})
ListEntry(p, name, reformed) ==
    [type |-> name, production |-> reformed, code |-> p.code, prec |-> p.prec]

\* The loop state after one production: what its macro calls pushed, then
\* its own entry.
Pushed(q, p, name, st) ==
    IF st.error # null THEN [q EXCEPT !.error = st.error]
    ELSE [q EXCEPT !.list = Append(st.list, ListEntry(p, name, st.reformed)),
                   !.i = st.i]

\* productions.forEach(...) from the k-th on: the list entries appended for
\* one scope.  q is the state of toGrammar's loop: the queue of scopes, the
\* list, the precedence levels, the id counter and the error thrown.
RECURSIVE ReformAll(_, _, _, _, _)
ReformAll(productions, k, name, vars, q) ==
    IF k > Len(productions) \/ q.error # null THEN q
    ELSE ReformAll(productions, k + 1, name, vars,
                   Pushed(q, productions[k], name,
                          Reform(productions[k].production, vars,
                                 [reformed |-> <<>>, list |-> q.list, i |-> q.i,
                                  error |-> null, handle |-> ""])))

\* The rest of a turn of the loop once the body is scanned.  A scope's
\* vars object has its parent's as prototype, so a name defined anywhere in
\* an enclosing body is visible once that body has been scanned.
Scanned(q, d, acc) ==
    IF acc.error # null THEN [q EXCEPT !.error = acc.error]
    ELSE ReformAll(acc.productions, 1, d.name, acc.vars,
                   [defs |-> Tail(q.defs)
                               \o [i \in DOMAIN acc.kids |->
                                     [body |-> acc.kids[i].body, name |-> acc.kids[i].name,
                                      vars |-> acc.vars]],
                    list |-> acc.list,
                    precedence |-> acc.precedence,
                    i |-> q.i,
                    error |-> null])

\* One turn of while (defs.length > 0): a scope is dequeued, its body
\* scanned and its productions reformed.
Dequeued(q, rootName) ==
    Scanned(q, Head(q.defs),
            ScanBody(Head(q.defs).body, 1, Head(q.defs).name, rootName,
                     [precedence |-> q.precedence, vars |-> Head(q.defs).vars,
                      list |-> q.list, kids |-> <<>>, productions |-> <<>>,
                      error |-> null]))

\* toGrammar's state before the loop: the code enqueued as the outermost
\* scope, let i = 0.
Enqueued(defs, list, precedence) ==
    [defs |-> defs, list |-> list, precedence |-> precedence, i |-> 0, error |-> null]

RECURSIVE WhileDefs(_, _)
WhileDefs(q, rootName) ==
    IF Len(q.defs) = 0 \/ q.error # null THEN q
    ELSE WhileDefs(Dequeued(q, rootName), rootName)

\* while (defs.length > 0): the queue of scopes, breadth first.
Drained(q) ==
    IF q.error # null THEN [list |-> <<>>, precedence |-> <<>>, error |-> q.error]
    ELSE [list |-> q.list, precedence |-> q.precedence, error |-> null]

RunQueue(defs, list, precedence, rootName) ==
    Drained(WhileDefs(Enqueued(defs, list, precedence), rootName))

\* The actions stored one id too high.
ActionsOfShifted(list) ==
    [i \in {j + 1 : j \in {k \in 0..(Len(list) - 1) :
                              list[k + 1].code # null /\ list[k + 1].code # ""}}
        |-> list[i].code]

\* list.reduce(...): the action of production i is the compiled code of
\* list entry i; an entry without code gets none.
ActionsOf(list) ==
    [i \in {j \in 0..(Len(list) - 1) : list[j + 1].code # null /\ list[j + 1].code # ""}
        |-> list[i + 1].code]

\* new Grammar(productions, root, precedence)
Grammar(productions, root, precedence) ==
    [productions |-> productions, root |-> root, precedence |-> precedence]

\* The ColdCraneGrammar toGrammar returns (error # null: it threw).
toGrammar(code, rootName) ==
    LET r == RunQueue(<<[body |-> code, name |-> "", vars |-> EmptyVars]>>,
                      <<>>, <<>>, rootName)
    IN  [grammar |-> Grammar([i \in DOMAIN r.list |-> extractor(r.list[i])], 0, r.precedence),
         actions |-> ActionsOf(r.list),
         error |-> r.error]

(***************************************************************************)
(* Grammar and PrecedenceTable (grammar.js, precedence.js)                 *)
(***************************************************************************)
clone(g) ==
    [productions |-> [i \in DOMAIN g.productions |-> g.productions[i]],
     root |-> g.root,
     precedence |-> [i \in DOMAIN g.precedence |-> g.precedence[i]]]

\* addProduction(lhs, rhs, meta) appends; the id returned is the old length.
addProduction(g, lhs, rhs) ==
    [g EXCEPT !.productions = Append(@, [type |-> lhs, production |-> rhs, prec |-> null])]

\* Grammar objects live in a heap: a reference is an index into it, and two
\* holders of one reference see each other's changes.  clone() makes a new
\* object with a copy of the contents.
cloneObject(h, r) == [heap |-> Append(h, clone(h[r])), ref |-> Len(h) + 1]

ProductionIds(g) == 0..(Len(g.productions) - 1)

ProductionAt(g, p) == g.productions[p + 1]

Lhs(g, p) == ProductionAt(g, p).type

Rhs(g, p) == ProductionAt(g, p).production

NonTerminals(g) == {Lhs(g, p) : p \in ProductionIds(g)}

Symbols(g) ==
    NonTerminals(g) \cup UNION {{Rhs(g, p)[i] : i \in DOMAIN Rhs(g, p)} : p \in ProductionIds(g)}

Terminals(g) == Symbols(g) \ NonTerminals(g)

\* A terminal's level is the position of the declaration that lists it
\* (0 the lowest); -1 when no declaration lists it.
LevelOf(precedence, t) ==
    LET at == {i \in DOMAIN precedence :
                 \E k \in DOMAIN precedence[i].tokens : precedence[i].tokens[k] = t}
    IN  IF at = {} THEN -1 ELSE (CHOOSE i \in at : \A j \in at : j <= i) - 1

AssocOf(precedence, level) == precedence[level + 1].type

\* The terminal a production takes its precedence from: its override when
\* set, else the rightmost terminal of its right-hand side, else null.
PrecedenceSymbol(g, p) ==
    LET rhs == Rhs(g, p)
        ts == {i \in DOMAIN rhs : rhs[i] \notin NonTerminals(g)}
    IN  IF ProductionAt(g, p).prec # null THEN ProductionAt(g, p).prec
        ELSE IF ts = {} THEN null
        ELSE rhs[CHOOSE i \in ts : \A j \in ts : j <= i]

ProductionLevel(g, p) ==
    IF PrecedenceSymbol(g, p) = null THEN -1
    ELSE LevelOf(g.precedence, PrecedenceSymbol(g, p))

(***************************************************************************)
(* clr: the canonical LR(1) builder (generator.js)                         *)
(***************************************************************************)
\* The left-hand side of the production clr appends to its own copy.
AcceptSymbol == "$accept"

\* clr's first step on the grammar it is handed: append the synthetic
\* production  $accept -> <lhs of the root production>.
Augment(g) == addProduction(g, AcceptSymbol, <<Lhs(g, g.root)>>)

AcceptProduction(g) == Len(g.productions) - 1

RECURSIVE NullableFix(_, _)
NullableFix(g, N) ==
    LET more == {Lhs(g, p) : p \in {q \in ProductionIds(g) :
                    \A i \in DOMAIN Rhs(g, q) : Rhs(g, q)[i] \in N}}
    IN  IF more \subseteq N THEN N ELSE NullableFix(g, N \cup more)

Nullable(g) == NullableFix(g, {})

\* FIRST of a symbol sequence under a table F of the non-terminals' FIRSTs.
RECURSIVE FirstOfSeq(_, _, _, _)
FirstOfSeq(g, nl, F, seq) ==
    IF Len(seq) = 0 THEN {}
    ELSE LET x == Head(seq)
             fx == IF x \in NonTerminals(g) THEN F[x] ELSE {x}
         IN  IF x \in nl THEN fx \cup FirstOfSeq(g, nl, F, Tail(seq)) ELSE fx

RECURSIVE FirstFix(_, _, _)
FirstFix(g, nl, F) ==
    LET G == [A \in NonTerminals(g) |->
                F[A] \cup UNION {FirstOfSeq(g, nl, F, Rhs(g, p)) :
                                   p \in {q \in ProductionIds(g) : Lhs(g, q) = A}}]
    IN  IF G = F THEN F ELSE FirstFix(g, nl, G)

First(g) == FirstFix(g, Nullable(g), [A \in NonTerminals(g) |-> {}])

AllNullable(nl, seq) == \A i \in DOMAIN seq : seq[i] \in nl

\* An item is (production, dot, lookahead); a state is a set of items, so
\* two states are equal exactly when they hold the same items.
Item(p, dot, la) == [p |-> p, dot |-> dot, la |-> la]

IsComplete(g, it) == it.dot = Len(Rhs(g, it.p))

AfterDot(g, it) == Rhs(g, it.p)[it.dot + 1]

RECURSIVE closure(_, _, _, _)
closure(g, nl, F, I) ==
    LET open == {it \in I : ~IsComplete(g, it) /\ AfterDot(g, it) \in NonTerminals(g)}
        new == UNION {
                 LET beta == SubSeq(Rhs(g, it.p), it.dot + 2, Len(Rhs(g, it.p)))
                     las == FirstOfSeq(g, nl, F, beta)
                              \cup (IF AllNullable(nl, beta) THEN {it.la} ELSE {})
                 IN  {Item(q, 0, b) : q \in {r \in ProductionIds(g) : Lhs(g, r) = AfterDot(g, it)},
                                      b \in las}
                 : it \in open}
    IN  IF new \subseteq I THEN I ELSE closure(g, nl, F, I \cup new)

goto(g, nl, F, I, X) ==
    closure(g, nl, F,
            {Item(it.p, it.dot + 1, it.la) :
                it \in {j \in I : ~IsComplete(g, j) /\ AfterDot(g, j) = X}})

\* The symbols in the order the productions first mention them.
RECURSIVE Distinct(_)
Distinct(seq) ==
    IF Len(seq) = 0 THEN <<>>
    ELSE LET front == Distinct(SubSeq(seq, 1, Len(seq) - 1))
             x == seq[Len(seq)]
         IN  IF \E i \in DOMAIN front : front[i] = x THEN front ELSE Append(front, x)

RECURSIVE Mentions(_, _)
Mentions(g, p) ==
    IF p > Len(g.productions) - 1 THEN <<>>
    ELSE <<Lhs(g, p)>> \o Rhs(g, p) \o Mentions(g, p + 1)

SymbolOrder(g) == Distinct(Mentions(g, 0))

\* The id of the registered state structurally equal to J, or -1.
StateIdOf(states, J) ==
    IF \E i \in DOMAIN states : states[i] = J
    THEN (CHOOSE i \in DOMAIN states : states[i] = J) - 1
    ELSE -1

\* Known only if the very same object is stored: a goto result, freshly
\* built, never is.
IsKnownByIdentity(states, J) == FALSE

\* Whether a goto result is already known; a new one is registered and
\* enqueued only when this says it is not.
IsKnown(states, J) == StateIdOf(states, J) # -1

\* The worklist step for state s: for every symbol from the k-th on,
\* compute goto, register and enqueue the result when new, and record the
\* transition.
RECURSIVE Expand(_, _, _, _, _, _, _)
Expand(g, nl, F, s, syms, k, b) ==
    IF k > Len(syms) THEN b
    ELSE
    LET X == syms[k]
        J == goto(g, nl, F, b.states[s + 1], X)
        known == IsKnown(b.states, J)
        to == IF known THEN StateIdOf(b.states, J) ELSE Len(b.states)
        nb == IF J = {} THEN b
              ELSE [b EXCEPT
                      !.states = IF known THEN @ ELSE Append(@, J),
                      !.queue = IF known THEN @ ELSE Append(@, to),
                      !.trans = @ \cup {[from |-> s, sym |-> X, to |-> to]}]
    IN  Expand(g, nl, F, s, syms, k + 1, nb)

\* The builder as clr leaves it before the first worklist step, working on
\* the Grammar object it was handed.
BuilderInit(grammar, object) ==
    LET g == Augment(grammar)
    IN  [grammar |-> g,
         object |-> object,
         states |-> <<closure(g, Nullable(g), First(g),
                              {Item(AcceptProduction(g), 0, EndOfInput)})>>,
         queue |-> <<0>>,
         trans |-> {},
         iterations |-> 0]

\* The symbols in reverse.
Reversed(seq) == [i \in DOMAIN seq |-> seq[Len(seq) + 1 - i]]

\* A worklist turn that tries the symbols in an order that depends on
\* which Grammar object the builder was handed.
WorklistStepByIdentity(b) ==
    LET g == b.grammar
        s == Head(b.queue)
        syms == IF b.object % 2 = 0 THEN SymbolOrder(g) ELSE Reversed(SymbolOrder(g))
        nb == Expand(g, Nullable(g), First(g), s, syms, 1,
                     [b EXCEPT !.queue = Tail(@)])
    IN  [nb EXCEPT !.iterations = @ + 1]

\* One turn of the worklist loop: take the state at the head of the queue
\* and compute its goto on every symbol.
WorklistStep(b) ==
    LET g == b.grammar
        s == Head(b.queue)
        nb == Expand(g, Nullable(g), First(g), s, SymbolOrder(g), 1,
                     [b EXCEPT !.queue = Tail(@)])
    IN  [nb EXCEPT !.iterations = @ + 1]

\* The loop run until the queue is empty.
RECURSIVE RunWorklist(_)
RunWorklist(b) == IF Len(b.queue) = 0 THEN b ELSE RunWorklist(WorklistStep(b))

(***************************************************************************)
(* The parsing table: candidate actions and conflict resolution            *)
(***************************************************************************)
Shift(to) == [type |-> "shift", arg |-> to]

Reduce(p) == [type |-> "reduce", arg |-> p]

Accept == [type |-> "accept", arg |-> -1]

NoAction == [type |-> "none", arg |-> -1]

StateIds(b) == 0..(Len(b.states) - 1)

\* Items with the dot before terminal a yield Shift via goto.
ShiftCandidates(b, s, a) ==
    {Shift(t.to) : t \in {u \in b.trans : u.from = s /\ u.sym = a}}

\* Complete items yield Reduce(production) for their lookahead ...
ReducibleOn(b, s, a) ==
    {it.p : it \in {j \in b.states[s + 1] :
                      /\ IsComplete(b.grammar, j)
                      /\ j.la = a
                      /\ j.p # AcceptProduction(b.grammar)}}

\* ... except the accepting production on EndOfInput, which yields Accept.
AcceptCandidates(b, s, a) ==
    IF /\ a = EndOfInput
       /\ \E it \in b.states[s + 1] :
             /\ it.p = AcceptProduction(b.grammar)
             /\ IsComplete(b.grammar, it)
             /\ it.la = EndOfInput
    THEN {Accept} ELSE {}

Candidates(b, s, a) ==
    ShiftCandidates(b, s, a)
      \cup {Reduce(p) : p \in ReducibleOn(b, s, a)}
      \cup AcceptCandidates(b, s, a)

\* Shift/reduce policy: shift unless the production's declared level is
\* higher than the terminal's, or equal and LEFT; equal and NONE is fatal.
ShiftReduce(g, p, a) ==
    LET lp == ProductionLevel(g, p)
        la == LevelOf(g.precedence, a)
    IN  IF lp = -1 \/ la = -1 THEN "shift"
        ELSE IF lp > la THEN "reduce"
        ELSE IF lp < la THEN "shift"
        ELSE IF AssocOf(g.precedence, lp) = "LEFT" THEN "reduce"
        ELSE IF AssocOf(g.precedence, lp) = "RIGHT" THEN "shift"
        ELSE "fatal"

\* Reduce/reduce policy: the production declared first.
ReduceReduce(ps) == CHOOSE p \in ps : \A q \in ps : p <= q

\* A resolution that consults the precedence for a reduce that has no
\* shift against it.
ResolveLoneReduce(g, cands, a) ==
    LET shifts == {c \in cands : c.type = "shift"}
        reduces == {c.arg : c \in {d \in cands : d.type = "reduce"}}
        accepts == {c \in cands : c.type = "accept"}
    IN  IF reduces = {} THEN [kept |-> cands, fatal |-> FALSE]
        ELSE
        LET r == ReduceReduce(reduces)
            d == IF shifts = {} /\ ProductionLevel(g, r) = -1 THEN "reduce"
                 ELSE ShiftReduce(g, r, a)
        IN  [kept |-> accepts \cup (IF d = "reduce" THEN {Reduce(r)}
                                    ELSE IF d = "shift" THEN shifts
                                    ELSE {}),
             fatal |-> d = "fatal"]

\* The actions kept for one (state, terminal) pair out of its candidates.
Resolve(g, cands, a) ==
    LET shifts == {c \in cands : c.type = "shift"}
        reduces == {c.arg : c \in {d \in cands : d.type = "reduce"}}
        accepts == {c \in cands : c.type = "accept"}
    IN  IF reduces = {} THEN [kept |-> cands, fatal |-> FALSE]
        ELSE
        LET r == ReduceReduce(reduces)
            d == IF shifts = {} THEN "reduce" ELSE ShiftReduce(g, r, a)
        IN  [kept |-> accepts \cup (IF d = "reduce" THEN {Reduce(r)}
                                    ELSE IF d = "shift" THEN shifts
                                    ELSE {}),
             fatal |-> d = "fatal"]

LookaheadSymbols(g) == Terminals(g) \cup {EndOfInput}

\* Whether some pair holds a conflict no rule resolves.
HasFatalConflict(b) ==
    \E s \in StateIds(b), a \in LookaheadSymbols(b.grammar) :
        Resolve(b.grammar, Candidates(b, s, a), a).fatal

\* The ParsingTable: the kept actions, the goto table, and for each
\* production its left-hand symbol and arity.
MakeTable(b) ==
    [action |-> UNION {
         {[state |-> s, sym |-> a, act |-> c] :
             c \in Resolve(b.grammar, Candidates(b, s, a), a).kept}
         : s \in StateIds(b), a \in LookaheadSymbols(b.grammar)},
     goto |-> {t \in b.trans : t.sym \in NonTerminals(b.grammar)},
     productions |-> [i \in DOMAIN b.grammar.productions |->
                        [lhs |-> b.grammar.productions[i].type,
                         arity |-> Len(b.grammar.productions[i].production)]]]

NoTable == [action |-> {}, goto |-> {}, productions |-> <<>>]

NoBuilder ==
    [grammar |-> Grammar(<<>>, 0, <<>>), object |-> 0, states |-> <<>>, queue |-> <<>>,
     trans |-> {}, iterations |-> 0]

(***************************************************************************)
(* CraneGrammar, ColdCraneGrammar, HotCraneGrammar                         *)
(***************************************************************************)
\* cook(): the hot grammar holds the cold one's grammar and the actions
\* evaluated to functions (kept here as the code they were compiled from).
cook(cold) == [grammar |-> cold.grammar, actions |-> cold.actions]

\* clr(grammar) up to its first worklist step: the synthetic production is
\* appended to the very object it was handed.
clrBegin(h, r) ==
    LET started == BuilderInit(h[r], r)
    IN  [heap |-> [h EXCEPT ![r] = started.grammar], b |-> started]

\* generateParsingTable() with clr handed the grammar itself.
generateParsingTableNoClone(h, cg) == clrBegin(h, cg.grammar)

\* generateParsingTable(): clr is handed a clone.
generateParsingTable(h, cg) ==
    LET c == cloneObject(h, cg.grammar)
    IN  clrBegin(c.heap, c.ref)

\* generateParser(): parserFactory(table, {...this.actions}).
parserFactory(table, actions) == [table |-> table, actions |-> actions]

NoParser == parserFactory(NoTable, EmptyVars)

\* Whether augment's third argument is a function (it defaults to null).
IsFunction(action) == action # null

\* augment() with the production appended before the action is stored.
augmentAppendFirst(h, hot, nt, tokens, action) ==
    LET appended == [h EXCEPT ![hot.grammar] = addProduction(@, nt, tokens)]
        id == Len(appended[hot.grammar].productions)
    IN  [heap |-> appended,
         hot |-> IF IsFunction(action)
                 THEN [hot EXCEPT !.actions =
                         [k \in (DOMAIN @) \cup {id} |-> IF k = id THEN action ELSE @[k]]]
                 ELSE hot]

\* augment(nt, tokens, action): a function is stored under
\* this.grammar.productions.length, then the production is appended to
\* this.grammar.
augment(h, hot, nt, tokens, action) ==
    LET id == Len(h[hot.grammar].productions)
    IN  [heap |-> [h EXCEPT ![hot.grammar] = addProduction(@, nt, tokens)],
         hot |-> IF IsFunction(action)
                 THEN [hot EXCEPT !.actions =
                         [k \in (DOMAIN @) \cup {id} |-> IF k = id THEN action ELSE @[k]]]
                 ELSE hot]

(***************************************************************************)
(* The parser instance (parser-factory.js)                                 *)
(***************************************************************************)
\* compile's `let loc = null`, the variable its context.node reads.
NoLoc == <<>>

\* A new instance: no hook installed, a context whose loc is unset.
NewInstance ==
    [mode |-> "Ready", stack |-> <<>>, onreducestart |-> null, context |-> [loc |-> NoLoc]]

\* A hook that keeps the first location it is given.
onreducestartOnce(context, data) ==
    IF context.loc = NoLoc THEN [context EXCEPT !.loc = <<data.loc>>] ELSE context

\* parsing.onreducestart = (data) => { loc = data.loc }
onreducestart(context, data) == [context EXCEPT !.loc = <<data.loc>>]

CurState(stack) == IF Len(stack) = 0 THEN 0 ELSE stack[Len(stack)].state

ActionAt(table, s, a) ==
    LET es == {e \in table.action : e.state = s /\ e.sym = a}
    IN  IF es = {} THEN NoAction ELSE (CHOOSE e \in es : TRUE).act

GotoAt(table, s, A) ==
    LET es == {e \in table.goto : e.from = s /\ e.sym = A}
    IN  IF es = {} THEN -1 ELSE (CHOOSE e \in es : TRUE).to

\* From the first popped frame's start to the last one's end; for an empty
\* production an empty location at the current position.
MergedLoc(popped, rest) ==
    IF Len(popped) = 0
    THEN LET at == IF Len(rest) = 0 THEN 0 ELSE rest[Len(rest)].loc.end
         IN  [start |-> at, end |-> at]
    ELSE [start |-> popped[1].loc.start, end |-> popped[Len(popped)].loc.end]

EmptyArray == [kind |-> "array", rule |-> -1, kids |-> <<>>]

\* Without an action a production resolves to its first symbol's value,
\* or to an empty array when it has no symbols.
DefaultValue(children) == IF Len(children) = 0 THEN EmptyArray ELSE children[1]

\* What indexing past the end of an array gives.
Undefined == [kind |-> "undefined", rule |-> -1, kids |-> <<>>]

\* JavaScript values of the arithmetic actions: a string, a number, NaN.
Text(t) == [kind |-> "string", text |-> t]

Number(n) == [kind |-> "number", n |-> n]

NaN == [kind |-> "NaN", n |-> 0]

\* $[k]: element k (from 0) of the values, undefined past their end.
Index(children, k) == IF k < Len(children) THEN children[k + 1] ELSE Undefined

\* parseFloat of a token's text.
parseFloat(v) ==
    IF v.kind = "number" THEN v
    ELSE IF v.kind = "string" /\ v.text \in {"0", "1", "2", "3", "4"}
    THEN Number(CHOOSE n \in 0..4 : ToString(n) = v.text)
    ELSE NaN

\* The arithmetic operators on numbers; any operand that is not a number
\* makes the result NaN, as does a fractional result, which the model
\* does not represent.
Arith(op, x, y) ==
    IF x.kind # "number" \/ y.kind # "number" THEN NaN
    ELSE CASE op = "+" -> Number(x.n + y.n)
           [] op = "-" -> Number(x.n - y.n)
           [] op = "*" -> Number(x.n * y.n)
           [] op = "**" -> IF y.n >= 0 THEN Number(x.n ^ y.n) ELSE NaN
           [] op = "/" -> IF y.n # 0 /\ x.n % y.n = 0 THEN Number(x.n \div y.n) ELSE NaN

\* new Error(message)
Error(message) == [kind |-> "Error", message |-> message]

\* What a call that threw gives in place of a value.
Thrown(failure) == [kind |-> "thrown", failure |-> failure]

\* A compiled action called as function ($, $loc, $rule) on the context:
\* the snippets of the grammars used here; any other code builds a node of
\* the rule and values with the context's node, which reads the context's
\* loc.
ApplyAction(code, children, loc, rule, context) ==
    CASE code = "$[0]" -> Index(children, 0)
      [] code = "$[1]" -> Index(children, 1)
      [] code = "parseFloat $[0]" -> parseFloat(Index(children, 0))
      [] code = "$[0] ** $[2]" -> Arith("**", Index(children, 0), Index(children, 2))
      [] code = "$[0] * $[2]" -> Arith("*", Index(children, 0), Index(children, 2))
      [] code = "$[0] / $[2]" -> Arith("/", Index(children, 0), Index(children, 2))
      [] code = "$[0] + $[2]" -> Arith("+", Index(children, 0), Index(children, 2))
      [] code = "a = $[0]; b = $[2]; a + b" ->
             Arith("+", Index(children, 0), Index(children, 2))
      [] code = "+$[1]" -> Arith("+", Number(0), Index(children, 1))
      [] code = "-$[2]" -> Arith("-", Number(0), Index(children, 2))
      [] code = "throw new Error 'boom'" -> Thrown(Error("boom"))
      [] OTHER -> [kind |-> "node", rule |-> rule, kids |-> children, loc |-> context.loc]

Min(a, c) == IF a < c THEN a ELSE c

\* The end of a reduce step: the frame with the action's value goes on the
\* frames left, in the goto state; nothing is pushed when the action
\* raised a failure.
Reduced(step, rest, to, value) ==
    LET threw == IF value.kind = "thrown" THEN <<value.failure>> ELSE <<>>
        after == IF value.kind = "thrown" THEN rest
                 ELSE Append(rest, [state |-> to, value |-> value, loc |-> step.loc])
    IN  [stack |-> after,
         context |-> step.context,
         event |-> [kind |-> "reduce", p |-> step.p, children |-> step.children,
                    loc |-> step.loc, rule |-> step.rule, called |-> step.called,
                    under |-> step.under, before |-> step.before,
                    hook |-> step.hook, context |-> step.context,
                    after |-> after, threw |-> threw]]

\* One Reduce(p): pop |rhs| frames, call the hook if one is installed,
\* call the action, push the result in the state goto[state under the
\* popped frames][lhs].  A failure the action raises leaves the step
\* there, the frames popped.
ReduceStep(parser, inst, p) ==
    LET stack == inst.stack
        meta == parser.table.productions[p + 1]
        n == Min(meta.arity, Len(stack))
        rest == SubSeq(stack, 1, Len(stack) - n)
        popped == SubSeq(stack, Len(stack) - n + 1, Len(stack))
        children == [i \in DOMAIN popped |-> popped[i].value]
        loc == MergedLoc(popped, rest)
        under == CurState(rest)
        called == p \in DOMAIN parser.actions
        data == [type |-> meta.lhs, loc |-> loc]
        context == IF inst.onreducestart = null THEN inst.context
                   ELSE onreducestart(inst.context, data)
    IN  Reduced([kind |-> "reduce", p |-> p, children |-> children, loc |-> loc,
                 rule |-> p, called |-> called, under |-> under, before |-> stack,
                 hook |-> IF inst.onreducestart = null THEN <<>> ELSE <<data>>,
                 context |-> context],
                rest, GotoAt(parser.table, under, meta.lhs),
                IF called THEN ApplyAction(parser.actions[p], children, loc, p, context)
                ELSE DefaultValue(children))

\* What the reduce loop ends with when an action raised a failure.
Raised == [type |-> "raised", arg |-> -1]

\* A call that signals an action's failure as an Unexpected-Token failure.
ActionErrorWrapped(inst, l) ==
    [inst |-> [inst EXCEPT !.mode = "Failed", !.stack = l.stack, !.context = l.context],
     outcome |-> "UnexpectedToken",
     error |-> <<[kind |-> "UnexpectedToken", state |-> l.stop, token |-> <<>>]>>,
     events |-> l.events, loopStack |-> l.stack, stop |-> l.stop, result |-> <<>>]

\* What a call signals when an action raised a failure inside it: that
\* failure, which the engine neither catches nor wraps; the mode is as it
\* was and the stack as the interrupted step left it.
ActionError(inst, l) ==
    [inst |-> [inst EXCEPT !.stack = l.stack, !.context = l.context],
     outcome |-> "ActionError",
     error |-> l.events[Len(l.events)].threw,
     events |-> l.events, loopStack |-> l.stack, stop |-> l.stop, result |-> <<>>]

\* The reduce loop for one pending terminal: reduce while the action at the
\* top state says so; stop on Shift, Accept or no action, or after a step
\* whose action raised a failure.
RECURSIVE ReduceLoop(_, _, _, _)
AfterStep(parser, inst, type, events, r) ==
    IF r.event.threw # <<>>
    THEN [stack |-> r.stack, context |-> r.context, events |-> Append(events, r.event),
          act |-> Raised, stop |-> CurState(r.stack)]
    ELSE ReduceLoop(parser, [inst EXCEPT !.stack = r.stack, !.context = r.context],
                    type, Append(events, r.event))

ReduceLoop(parser, inst, type, events) ==
    LET act == ActionAt(parser.table, CurState(inst.stack), type)
    IN  IF act.type = "reduce"
        THEN AfterStep(parser, inst, type, events, ReduceStep(parser, inst, act.arg))
        ELSE [stack |-> inst.stack, context |-> inst.context, events |-> events,
              act |-> act, stop |-> CurState(inst.stack)]

NoError == <<>>

\* push with an `if` where the reduce loop belongs: at most one reduction,
\* then the token is shifted on whatever action is found.
pushOneReduce(parser, inst, token) ==
    IF inst.mode # "Ready"
    THEN [inst |-> inst, outcome |-> "Rejected", error |-> NoError, events |-> <<>>,
          loopStack |-> inst.stack, stop |-> CurState(inst.stack), result |-> <<>>]
    ELSE
    LET first == ActionAt(parser.table, CurState(inst.stack), token.type)
        r == ReduceStep(parser, inst, first.arg)
        stack == IF first.type = "reduce" THEN r.stack ELSE inst.stack
        events == IF first.type = "reduce" THEN <<r.event>> ELSE <<>>
        act == ActionAt(parser.table, CurState(stack), token.type)
    IN  IF act.type \in {"shift", "reduce"}
        THEN LET after == Append(stack, [state |-> act.arg, value |-> token.value,
                                         loc |-> token.loc])
             IN  [inst |-> [inst EXCEPT !.stack = after],
                  outcome |-> "Shifted", error |-> NoError,
                  events |-> Append(events, [kind |-> "shift", token |-> token,
                                             before |-> stack, after |-> after]),
                  loopStack |-> stack, stop |-> CurState(stack), result |-> <<>>]
        ELSE [inst |-> [inst EXCEPT !.mode = "Failed", !.stack = stack],
              outcome |-> "UnexpectedToken",
              error |-> <<[kind |-> "UnexpectedToken", state |-> CurState(stack),
                           token |-> <<token>>]>>,
              events |-> events, loopStack |-> stack, stop |-> CurState(stack),
              result |-> <<>>]

\* push(token): what it leaves of the instance and what it signals.
push(parser, inst, token) ==
    IF inst.mode # "Ready"
    THEN [inst |-> inst, outcome |-> "Rejected", error |-> NoError, events |-> <<>>,
          loopStack |-> inst.stack, stop |-> CurState(inst.stack), result |-> <<>>]
    ELSE
    LET l == ReduceLoop(parser, inst, token.type, <<>>)
    IN  IF l.act.type = "raised" THEN ActionError(inst, l)
        ELSE IF l.act.type = "shift"
        THEN LET after == Append(l.stack, [state |-> l.act.arg, value |-> token.value,
                                           loc |-> token.loc])
             IN  [inst |-> [inst EXCEPT !.stack = after, !.context = l.context],
                  outcome |-> "Shifted", error |-> NoError,
                  events |-> Append(l.events, [kind |-> "shift", token |-> token,
                                               before |-> l.stack, after |-> after]),
                  loopStack |-> l.stack, stop |-> l.stop, result |-> <<>>]
        ELSE [inst |-> [inst EXCEPT !.mode = "Failed", !.stack = l.stack,
                                    !.context = l.context],
              outcome |-> "UnexpectedToken",
              error |-> <<[kind |-> "UnexpectedToken", state |-> l.stop, token |-> <<token>>]>>,
              events |-> l.events, loopStack |-> l.stack, stop |-> l.stop, result |-> <<>>]

\* finish(): EndOfInput as the pending terminal.
finish(parser, inst) ==
    IF inst.mode # "Ready"
    THEN [inst |-> inst, outcome |-> "Rejected", error |-> NoError, events |-> <<>>,
          loopStack |-> inst.stack, stop |-> CurState(inst.stack), result |-> <<>>]
    ELSE
    LET l == ReduceLoop(parser, inst, EndOfInput, <<>>)
    IN  IF l.act.type = "raised" THEN ActionError(inst, l)
        ELSE IF l.act.type = "accept"
        THEN [inst |-> [inst EXCEPT !.mode = "Accepted",
                                    !.stack = SubSeq(l.stack, 1, Len(l.stack) - 1),
                                    !.context = l.context],
              outcome |-> "Accepted", error |-> NoError, events |-> l.events,
              loopStack |-> l.stack, stop |-> l.stop,
              result |-> <<l.stack[Len(l.stack)].value>>]
        ELSE [inst |-> [inst EXCEPT !.mode = "Failed", !.stack = l.stack,
                                    !.context = l.context],
              outcome |-> "PrematureEnd",
              error |-> <<[kind |-> "PrematureEnd", state |-> l.stop, token |-> <<>>]>>,
              events |-> l.events, loopStack |-> l.stack, stop |-> l.stop, result |-> <<>>]

(***************************************************************************)
(* The grammars the model is run on                                        *)
(***************************************************************************)
Assocs == {"left", "right", "none"}

\* Every precedence section of at most two declarations over the given
\* terminals, none declared twice.
PrecChoices(ts) ==
    {<<>>}
      \cup {<<PrecLine(a, <<t>>)>> : a \in Assocs, t \in {ts[1], ts[2]}}
      \cup {<<PrecLine(a, ts)>> : a \in Assocs}
      \cup {<<PrecLine(a, <<o[1]>>), PrecLine(c, <<o[2]>>)>> :
               a \in Assocs, c \in Assocs, o \in {ts, <<ts[2], ts[1]>>}}

Codes == {"node", null}

\* E > n | E '+' E | E '*' E, the '+' production with or without %prec '*'.
ExprInputs ==
    {[code |-> precs \o <<DefLine("E", <<
                  ProdLine(<<Str("n")>>, "node", null),
                  ProdLine(<<Id("E"), Str("+"), Id("E")>>, "node", ov),
                  ProdLine(<<Id("E"), Str("*"), Id("E")>>, "node", null)>>)>>,
      rootName |-> null] :
        precs \in PrecChoices(<<"+", "*">>), ov \in {null, "*"}}

\* E > n | E '-' E | '-' E %prec unary
UnaryInputs ==
    {[code |-> precs \o <<DefLine("E", <<
                  ProdLine(<<Str("n")>>, "node", null),
                  ProdLine(<<Id("E"), Str("-"), Id("E")>>, "node", null),
                  ProdLine(<<Str("-"), Id("E")>>, "node", "unary")>>)>>,
      rootName |-> null] :
        precs \in PrecChoices(<<"-", "unary">>)}

\* S > i S | i S e S | x : the dangling else.
ElseInputs ==
    {[code |-> precs \o <<DefLine("S", <<
                  ProdLine(<<Str("i"), Id("S")>>, "node", null),
                  ProdLine(<<Str("i"), Id("S"), Str("e"), Id("S")>>, "node", null),
                  ProdLine(<<Str("x")>>, "node", null)>>)>>,
      rootName |-> null] :
        precs \in PrecChoices(<<"i", "e">>)}

\* S > A x | B x | A ;  A > a ;  B > a, with A and B declared in either
\* order: both reduce on x after a.
AmbiguousInputs ==
    {[code |-> <<DefLine("S", <<
                    ProdLine(<<Id("A"), Str("x")>>, "node", null),
                    ProdLine(<<Id("B"), Str("x")>>, "node", null),
                    ProdLine(<<Id("A")>>, c, null)>>),
                 DefLine(o[1], <<ProdLine(<<Str("a")>>, "node", null)>>),
                 DefLine(o[2], <<ProdLine(<<Str("a")>>, "node", null)>>)>>,
      rootName |-> null] :
        c \in Codes, o \in {<<"A", "B">>, <<"B", "A">>}}

\* items > (empty) | items a ;  root > items, with either as the root.
ListInputs ==
    {[code |-> <<DefLine("items", <<
                    ProdLine(<<>>, c, null),
                    ProdLine(<<Id("items"), Str("a")>>, d, null)>>),
                 DefLine("root", <<ProdLine(<<Id("items")>>, null, null)>>)>>,
      rootName |-> r] :
        c \in Codes, d \in {"node", "throw new Error 'boom'"}, r \in {null, "root"}}

\* E > T | E '+' T ;  T > n : no conflict, under every precedence section
\* and with or without %prec n on the '+' production.
SumInputs ==
    {[code |-> precs \o <<DefLine("E", <<
                  ProdLine(<<Id("T")>>, null, null),
                  ProdLine(<<Id("E"), Str("+"), Id("T")>>, "node", ov)>>),
               DefLine("T", <<ProdLine(<<Str("n")>>, "node", null)>>)>>,
      rootName |-> null] :
        precs \in PrecChoices(<<"+", "n">>), ov \in {null, "n"}}

Inputs ==
    ExprInputs \cup UnaryInputs \cup ElseInputs \cup AmbiguousInputs \cup ListInputs
      \cup SumInputs

(***************************************************************************)
(* The state machine                                                       *)
(***************************************************************************)
VARIABLES
    input,      \* the DSL tree and root name toGrammar was called with
    cg,         \* the HotCraneGrammar: grammar and actions
    phase,      \* hot, building, built, conflict, run
    b,          \* clr's worklist: its grammar, states, queue, transitions
    parser,     \* what generateParser returned: table and bound actions
    inst,       \* the parser instance: mode and stack
    driver,     \* who calls the instance: direct, or compile's loop
    npushed,    \* push calls made so far
    last,       \* the last push or finish call: arguments, signal, steps
    returned,   \* the results finish has returned
    thrown,     \* what compile threw
    heap,       \* the Grammar objects, by reference
    cold,       \* the ColdCraneGrammar toGrammar returned
    hots,       \* further grammars cooked from it
    builds,     \* the generateParser calls made on them and what they gave
    given,      \* the augment calls made on them
    pair,       \* two instances of one parser: each one's calls and state
    front       \* toGrammar's loop: the scopes queued, the list, the counter

vars == <<input, cg, phase, b, parser, inst, driver, npushed, last, returned, thrown,
          heap, cold, hots, builds, given, pair, front>>

\* toGrammar's loop when no call of it is followed.
NoFront == Enqueued(<<>>, <<>>, <<>>)

\* What a parse session leaves alone.
lifecycleVars == <<cold, hots, builds, given>>

\* What the life of the grammar objects leaves alone.
sessionVars == <<cg, phase, b, parser, inst, driver, npushed, last, returned, thrown>>

NoCall ==
    [op |-> "none", token |-> <<>>, pre |-> NewInstance, outcome |-> "none",
     error |-> NoError, events |-> <<>>, loopStack |-> <<>>, stop |-> 0,
     result |-> <<>>]

CallRecord(op, token, pre, r) ==
    [op |-> op, token |-> token, pre |-> pre, outcome |-> r.outcome,
     error |-> r.error, events |-> r.events, loopStack |-> r.loopStack,
     stop |-> r.stop, result |-> r.result]

\* e.message of what a call threw: an action's failure carries its own
\* message, the engine's failures are named by their kind.
Message(r) == IF r.outcome = "ActionError" THEN r.error[1].message ELSE r.outcome

\* An action's failure came out of the last call: the instance is to be
\* discarded, no further call is made on it.
Poisoned == last.outcome = "ActionError"

\* The text the tokens are cut from: one character per token, a newline
\* after every second one and at the end (tokenize(string + '\n')).
Source == [i \in 1..(MaxTokens + 1) |-> IF i % 3 = 0 \/ i = MaxTokens + 1 THEN "\n" ELSE "c"]

\* The k-th token of a session: its value names it, its location is
\* [k, k+1], and it carries the text and its range in it.
Token(type, k) ==
    [type |-> type,
     value |-> [kind |-> "tok", type |-> type, pos |-> k],
     loc |-> [start |-> k, end |-> k + 1],
     source |-> Source,
     range |-> <<k, k + 1>>]

\* The token types a caller may push: the terminals and one unknown type.
TokenTypes == Terminals(heap[cg.grammar]) \cup {"?"}

\* The scan of getLoc from character i on, at position pos, with the
\* positions found so far in list; nothing when the text ends first.
RECURSIVE getLocScan(_, _, _, _, _)
getLocScan(source, range, i, pos, list) ==
    IF i >= Len(source) THEN <<>>
    ELSE LET found == IF i = range[Len(list) + 1] THEN Append(list, pos) ELSE list
         IN  IF Len(found) = Len(range)
             THEN <<[start |-> found[1], end |-> found[2]]>>
             ELSE getLocScan(source, range, i + 1,
                             IF source[i + 1] = "\n"
                             THEN [line |-> pos.line + 1, column |-> 0]
                             ELSE [line |-> pos.line, column |-> pos.column + 1],
                             found)

\* getLoc({source, range}): the line and column of the range's two ends,
\* or nothing (undefined) when the scan ends before it has found both.
getLoc(token) == getLocScan(token.source, token.range, 0, [line |-> 1, column |-> 0], <<>>)

\* The catch with the position of the token's end.
RethrowAtEnd(message, token) ==
    LET loc == getLoc(token)
    IN  IF loc = <<>> THEN "TypeError"
        ELSE message \o " @" \o ToString(loc[1].end.line) \o ":"
                     \o ToString(loc[1].end.column)

\* compile's catch: the failure's message with the line and column of the
\* start of the token that was being pushed; reading the start of nothing
\* is a TypeError of its own.
Rethrow(message, token) ==
    LET loc == getLoc(token)
    IN  IF loc = <<>> THEN "TypeError"
        ELSE message \o " @" \o ToString(loc[1].start.line) \o ":"
                     \o ToString(loc[1].start.column)

Init ==
    /\ input \in Inputs
    /\ heap = <<toGrammar(input.code, input.rootName).grammar>>
    /\ cold = [grammar |-> 1, actions |-> toGrammar(input.code, input.rootName).actions]
    /\ cg = cook(cold)
    /\ hots = <<>>
    /\ builds = <<>>
    /\ given = <<>>
    /\ phase = "hot"
    /\ b = NoBuilder
    /\ parser = NoParser
    /\ inst = NewInstance
    /\ driver = "none"
    /\ npushed = 0
    /\ last = NoCall
    /\ returned = <<>>
    /\ thrown = <<>>
    /\ pair = <<>>
    /\ front = NoFront

\* generateParser() up to the call of clr.
GenerateParser ==
    /\ phase = "hot"
    /\ LET started == generateParsingTable(heap, cg)
       IN  /\ heap' = started.heap
           /\ b' = started.b
    /\ phase' = "building"
    /\ UNCHANGED <<input, cg, parser, inst, driver, npushed, last, returned, thrown>>
    /\ UNCHANGED <<lifecycleVars, pair, front>>

\* One turn of clr's worklist loop.
BuildStep ==
    /\ phase = "building"
    /\ Len(b.queue) > 0
    /\ b' = WorklistStep(b)
    /\ UNCHANGED <<input, cg, phase, parser, inst, driver, npushed, last, returned, thrown>>
    /\ UNCHANGED <<heap, lifecycleVars, pair, front>>

\* The worklist is empty: clr fills the table or raises the grammar
\* conflict, and generateParser binds the actions.
BuildTable ==
    /\ phase = "building"
    /\ Len(b.queue) = 0
    /\ IF HasFatalConflict(b)
       THEN /\ phase' = "conflict"
            /\ parser' = NoParser
       ELSE /\ phase' = "built"
            /\ parser' = parserFactory(MakeTable(b), cg.actions)
    /\ UNCHANGED <<input, cg, b, inst, driver, npushed, last, returned, thrown>>
    /\ UNCHANGED <<heap, lifecycleVars, pair, front>>

\* new Parser({context}), by a caller of the API or by compile, which
\* then installs its hook.
NewParser ==
    /\ phase = "built"
    /\ phase' = "run"
    /\ \E d \in {"direct", "loop"} :
         /\ driver' = d
         /\ inst' = IF d = "loop" THEN [NewInstance EXCEPT !.onreducestart = "loc = data.loc"]
                    ELSE NewInstance
    /\ UNCHANGED <<input, cg, b, parser, npushed, last, returned, thrown>>
    /\ UNCHANGED <<heap, lifecycleVars, pair, front>>

\* parsing.push(token) called directly.
Push ==
    /\ phase = "run"
    /\ driver = "direct"
    /\ ~Poisoned
    /\ npushed < MaxTokens
    /\ \E type \in TokenTypes :
         LET token == Token(type, npushed)
             r == push(parser, inst, token)
         IN  /\ inst' = r.inst
             /\ last' = CallRecord("push", <<token>>, inst, r)
    /\ npushed' = npushed + 1
    /\ UNCHANGED <<input, cg, phase, b, parser, driver, returned, thrown>>
    /\ UNCHANGED <<heap, lifecycleVars, pair, front>>

\* parsing.finish() called directly.
Finish ==
    /\ phase = "run"
    /\ driver = "direct"
    /\ ~Poisoned
    /\ LET r == finish(parser, inst)
       IN  /\ inst' = r.inst
           /\ last' = CallRecord("finish", <<>>, inst, r)
           /\ returned' = returned \o r.result
    /\ UNCHANGED <<input, cg, phase, b, parser, driver, npushed, thrown>>
    /\ UNCHANGED <<heap, lifecycleVars, pair, front>>

\* One turn of compile's loop: push the next token; a failure is thrown
\* again with the token's position appended, and ends the loop.
CompilePush ==
    /\ phase = "run"
    /\ driver = "loop"
    /\ npushed < MaxTokens
    /\ \E type \in TokenTypes :
         LET token == Token(type, npushed)
             r == push(parser, inst, token)
         IN  /\ inst' = r.inst
             /\ last' = CallRecord("push", <<token>>, inst, r)
             /\ IF r.outcome = "Shifted"
                THEN UNCHANGED <<driver, thrown>>
                ELSE /\ driver' = "threw"
                     /\ thrown' = <<Rethrow(Message(r), token)>>
    /\ npushed' = npushed + 1
    /\ UNCHANGED <<input, cg, phase, b, parser, returned>>
    /\ UNCHANGED <<heap, lifecycleVars, pair, front>>

\* compile with finish inside the loop's try block: its failure is thrown
\* again with the position of the last token.
CompileFinishInTry ==
    /\ phase = "run"
    /\ driver = "loop"
    /\ LET r == finish(parser, inst)
       IN  /\ inst' = r.inst
           /\ last' = CallRecord("finish", <<>>, inst, r)
           /\ returned' = returned \o r.result
           /\ IF r.outcome = "Accepted"
              THEN /\ driver' = "returned"
                   /\ UNCHANGED thrown
              ELSE /\ driver' = "threw"
                   /\ thrown' = <<Rethrow(Message(r), Token(EndOfInput, npushed - 1))>>
    /\ UNCHANGED <<input, cg, phase, b, parser, npushed>>
    /\ UNCHANGED <<heap, lifecycleVars, pair, front>>

\* The loop is over: compile calls finish, whose failure it lets through.
CompileFinish ==
    /\ phase = "run"
    /\ driver = "loop"
    /\ LET r == finish(parser, inst)
       IN  /\ inst' = r.inst
           /\ last' = CallRecord("finish", <<>>, inst, r)
           /\ returned' = returned \o r.result
           /\ IF r.outcome = "Accepted"
              THEN /\ driver' = "returned"
                   /\ UNCHANGED thrown
              ELSE /\ driver' = "threw"
                   /\ thrown' = <<Message(r)>>
    /\ UNCHANGED <<input, cg, phase, b, parser, npushed>>
    /\ UNCHANGED <<heap, lifecycleVars, pair, front>>

Next ==
    \/ GenerateParser
    \/ BuildStep
    \/ BuildTable
    \/ NewParser
    \/ Push
    \/ Finish
    \/ CompilePush
    \/ CompileFinish

Spec == Init /\ [][Next]_vars

(***************************************************************************)
(* The life of the grammar objects: cook, augment, generateParser          *)
(***************************************************************************)
\* The most grammars cooked from one cold grammar, augment calls and
\* generateParser calls in one run.
MaxHots == 2

MaxAugments == 2

MaxBuilds == 2

\* The grammars this part is run on.
LifecycleInputs ==
    {i \in ListInputs : i.code[1].body[1].code = "node" /\ i.code[1].body[2].code = "node"}
      \cup {i \in UnaryInputs : Len(i.code) = 1}

\* What augment is called with: a non-terminal of the grammar or a new
\* one, a right-hand side, and a function or nothing.
AugmentNames == {Lhs(heap[cold.grammar], 1), "extra"}

AugmentTokens == {<<"a">>}

AugmentActions == {null, "node"}

InitLifecycle ==
    /\ input \in LifecycleInputs
    /\ heap = <<toGrammar(input.code, input.rootName).grammar>>
    /\ cold = [grammar |-> 1, actions |-> toGrammar(input.code, input.rootName).actions]
    /\ cg = cook(cold)
    /\ hots = <<>>
    /\ builds = <<>>
    /\ given = <<>>
    /\ phase = "hot"
    /\ b = NoBuilder
    /\ parser = NoParser
    /\ inst = NewInstance
    /\ driver = "none"
    /\ npushed = 0
    /\ last = NoCall
    /\ returned = <<>>
    /\ thrown = <<>>
    /\ pair = <<>>
    /\ front = NoFront

\* cold.cook()
Cook ==
    /\ Len(hots) < MaxHots
    /\ hots' = Append(hots, cook(cold))
    /\ UNCHANGED <<input, heap, cold, builds, given>>
    /\ UNCHANGED <<sessionVars, pair, front>>

\* hot.augment(nt, tokens, action) on one of the cooked grammars.
AugmentCall ==
    /\ Len(given) < MaxAugments
    /\ \E i \in DOMAIN hots, nt \in AugmentNames, tokens \in AugmentTokens,
          action \in AugmentActions :
         LET r == augment(heap, hots[i], nt, tokens, action)
         IN  /\ heap' = r.heap
             /\ hots' = [hots EXCEPT ![i] = r.hot]
             /\ given' = Append(given,
                    [hot |-> i, nt |-> nt, tokens |-> tokens, action |-> action,
                     length |-> Len(heap[hots[i].grammar].productions),
                     actions |-> hots[i].actions])
    /\ UNCHANGED <<input, cold, builds>>
    /\ UNCHANGED <<sessionVars, pair, front>>

\* hot.generateParser() on one of the cooked grammars, clr run to its end.
GenerateCall ==
    /\ Len(builds) < MaxBuilds
    /\ \E i \in DOMAIN hots :
         LET started == generateParsingTable(heap, hots[i])
             done == RunWorklist(started.b)
             fatal == HasFatalConflict(done)
         IN  /\ heap' = started.heap
             /\ builds' = Append(builds,
                    [hot |-> i,
                     from |-> heap[hots[i].grammar],
                     object |-> done.object,
                     fatal |-> fatal,
                     parser |-> IF fatal THEN NoParser
                                ELSE parserFactory(MakeTable(done), hots[i].actions)])
    /\ UNCHANGED <<input, cold, hots, given>>
    /\ UNCHANGED <<sessionVars, pair, front>>

NextLifecycle ==
    \/ Cook
    \/ AugmentCall
    \/ GenerateCall

SpecLifecycle == InitLifecycle /\ [][NextLifecycle]_vars

(***************************************************************************)
(* Properties of push and finish                                           *)
(***************************************************************************)
\* The entries the table holds for a (state, symbol) pair.
EntriesAt(s, a) == {e.act : e \in {x \in parser.table.action : x.state = s /\ x.sym = a}}

\* The line (from 1) and column (from 0) of the character at offset k.
NewlinesBefore(k) == {j \in 1..k : Source[j] = "\n"}

LineOf(k) == 1 + Cardinality(NewlinesBefore(k))

ColumnOf(k) ==
    IF NewlinesBefore(k) = {} THEN k
    ELSE k - (CHOOSE j \in NewlinesBefore(k) : \A i \in NewlinesBefore(k) : i <= j)

\* The stack the reduce loop of the last call left, rebuilt from its steps.
AfterLoop ==
    LET reduces == SelectSeq(last.events, LAMBDA e : e.kind = "reduce")
    IN  IF Len(reduces) = 0 THEN last.pre.stack ELSE reduces[Len(reduces)].after

\* C1: a push on a Ready instance whose state s has no action for the
\* token's type signals Unexpected-Token naming exactly s and that token
\* (compile rethrows it with that token's position) and leaves the instance
\* Failed; a push on a Failed instance is rejected: it shifts nothing,
\* reduces nothing, calls no action and changes nothing.
C1_UnexpectedTokenPoisons ==
    last.op = "push" =>
      /\ (/\ last.pre.mode = "Ready"
          /\ EntriesAt(CurState(last.pre.stack), last.token[1].type) = {})
           => /\ last.outcome = "UnexpectedToken"
              /\ last.error = <<[kind |-> "UnexpectedToken",
                                 state |-> CurState(last.pre.stack),
                                 token |-> last.token]>>
              /\ last.events = <<>>
              /\ inst.mode = "Failed"
              /\ driver = "threw" =>
                   thrown = <<"UnexpectedToken @"
                                \o ToString(LineOf(last.token[1].range[1])) \o ":"
                                \o ToString(ColumnOf(last.token[1].range[1]))>>
      /\ last.pre.mode = "Failed"
           => /\ last.outcome = "Rejected"
              /\ last.events = <<>>
              /\ inst = last.pre

\* A push rejected by an instance that an unexpected token poisoned: the
\* state it stopped in has an action for EndOfInput, so it was no finish
\* that made it fail.
C1_Witness ==
    /\ last.op = "push"
    /\ last.pre.mode = "Failed"
    /\ last.outcome = "Rejected"
    /\ Len(last.pre.stack) > 0
    /\ EntriesAt(CurState(last.pre.stack), EndOfInput) # {}

\* C2: a finish on a Ready instance whose state after the reduce loop has
\* no action for EndOfInput signals Premature-End, which is not the
\* Unexpected-Token kind and names no token (compile lets it through with no
\* position), returns nothing and leaves the instance Failed.
C2_PrematureEnd ==
    (/\ last.op = "finish"
     /\ last.pre.mode = "Ready"
     /\ EntriesAt(CurState(AfterLoop), EndOfInput) = {})
      => /\ last.outcome = "PrematureEnd"
         /\ last.error = <<[kind |-> "PrematureEnd", state |-> CurState(AfterLoop),
                            token |-> <<>>]>>
         /\ last.error[1].kind # "UnexpectedToken"
         /\ last.result = <<>>
         /\ returned = <<>>
         /\ inst.mode = "Failed"
         /\ driver = "threw" =>
              thrown = <<"PrematureEnd">>

\* compile's finish fails on input that stops in the middle of a phrase.
C2_Witness ==
    /\ last.op = "finish"
    /\ last.outcome = "PrematureEnd"
    /\ Len(last.pre.stack) > 0
    /\ driver = "threw"

\* C3: when finish accepts, the reduce loop has left exactly one frame; its
\* value, the one the start non-terminal's reduction produced, is what
\* finish returns; the instance is Accepted; and an instance has returned
\* one result when it is Accepted and none otherwise.
C3_AcceptReturnsRoot ==
    /\ (last.op = "finish" /\ last.outcome = "Accepted")
         => /\ Len(AfterLoop) = 1
            /\ last.result = <<AfterLoop[1].value>>
            /\ Len(last.events) > 0
            /\ LET e == last.events[Len(last.events)]
               IN  /\ e.p = heap[cg.grammar].root
                   /\ Len(e.children) = 1
                   /\ last.result = <<e.children[1]>>
            /\ inst.mode = "Accepted"
    /\ Len(returned) = IF inst.mode = "Accepted" THEN 1 ELSE 0

\* A finish that was rejected because the instance had already accepted.
C3_Witness ==
    /\ last.op = "finish"
    /\ last.outcome = "Rejected"
    /\ inst.mode = "Accepted"
    /\ Len(returned) = 1
    /\ returned[1].kind = "node"

\* The positions of the tokens under a value, left to right.
RECURSIVE LeavesOf(_)
LeavesOf(v) ==
    IF v.kind = "tok" THEN <<v.pos>>
    ELSE LET RECURSIVE Cat(_)
             Cat(k) == IF k > Len(v.kids) THEN <<>>
                       ELSE LeavesOf(v.kids[k]) \o Cat(k + 1)
         IN  Cat(1)

RECURSIVE StackLeaves(_)
StackLeaves(stack) ==
    IF Len(stack) = 0 THEN <<>>
    ELSE StackLeaves(SubSeq(stack, 1, Len(stack) - 1)) \o LeavesOf(stack[Len(stack)].value)

\* C4: a push that succeeds runs reduce steps only, then shifts once: the
\* table's entry for the token at the state the reductions ended in is a
\* Shift, and the stack is the reduced stack plus one frame with that
\* Shift's target, the token's value and its location.  While the instance
\* is Ready and no action's failure has interrupted a call on it, the
\* tokens on its stack are exactly the tokens pushed so far, in push order.
C4_ShiftAfterReduces ==
    /\ (last.op = "push" /\ last.outcome = "Shifted")
         => LET n == Len(last.events)
                token == last.token[1]
            IN  /\ n >= 1
                /\ last.events[n].kind = "shift"
                /\ \A i \in 1..(n - 1) : last.events[i].kind = "reduce"
                /\ last.events[n].before = AfterLoop
                /\ \E t \in StateIds(b) :
                     /\ EntriesAt(CurState(AfterLoop), token.type) = {Shift(t)}
                     /\ inst.stack = Append(AfterLoop, [state |-> t, value |-> token.value,
                                                        loc |-> token.loc])
    /\ (phase = "run" /\ inst.mode = "Ready" /\ ~Poisoned)
         => StackLeaves(inst.stack) = [i \in 1..npushed |-> i - 1]

\* A push that took two reductions before its shift.
C4_Witness ==
    /\ last.op = "push"
    /\ last.outcome = "Shifted"
    /\ Len(last.events) >= 3
    /\ npushed >= 3

\* The code the DSL source gives production p (null when it gives none).
DeclaredCode(p) ==
    RunQueue(<<[body |-> input.code, name |-> "", vars |-> EmptyVars]>>,
             <<>>, <<>>, input.rootName).list[p + 1].code

\* C5: every reduce step by production p pops exactly |rhs(p)| frames,
\* passes their values oldest first and p's id to p's action, which it
\* calls once (a production without one takes the default value), and
\* pushes one frame with the value returned and the state
\* goto[s][lhs(p)], s being the state under the popped frames; the steps
\* of a call follow one another from the stack the call found.  (A step
\* whose action raises a failure has no value to push and stops with the
\* frames popped.)
C5_ReduceStep ==
    \A i \in DOMAIN last.events :
      LET e == last.events[i]
          g == b.grammar
      IN  e.kind = "reduce" =>
            LET n == Len(Rhs(g, e.p))
                depth == Len(e.before)
                rest == SubSeq(e.before, 1, depth - n)
                top == e.after[Len(e.after)]
                code == DeclaredCode(e.p)
            IN  /\ depth >= n
                /\ e.before = IF i = 1 THEN last.pre.stack ELSE last.events[i - 1].after
                /\ e.children = [j \in 1..n |-> e.before[depth - n + j].value]
                /\ e.rule = e.p
                /\ e.under = CurState(rest)
                /\ e.called = (code # null)
                /\ IF e.threw # <<>>
                   THEN /\ e.after = rest
                        /\ code # null
                        /\ ApplyAction(code, e.children, e.loc, e.p, e.context) = Thrown(e.threw[1])
                   ELSE /\ Len(e.after) = depth + 1 - n
                        /\ SubSeq(e.after, 1, Len(e.after) - 1) = rest
                        /\ [from |-> e.under, sym |-> Lhs(g, e.p), to |-> top.state]
                              \in parser.table.goto
                        /\ top.value = IF code # null
                                       THEN ApplyAction(code, e.children, e.loc, e.p, e.context)
                                       ELSE DefaultValue(e.children)

\* A reduction that popped several frames off a deeper stack and called
\* its action.
C5_Witness ==
    /\ last.op \in {"push", "finish"}
    /\ \E i \in DOMAIN last.events :
         /\ last.events[i].kind = "reduce"
         /\ Len(last.events[i].children) >= 2
         /\ last.events[i].called
         /\ Len(last.events[i].before) > Len(last.events[i].children)

(***************************************************************************)
(* Properties of the table builder                                         *)
(***************************************************************************)
IsPrecedenceLine(l) == l.type \in Assocs

IsDefinitionLine(l) == l.type = "definition"

IsProductionLine(l) == l.type = "production"

\* The precedence declarations of the source, lowest first.
DeclaredPrecedence == SelectSeq(input.code, IsPrecedenceLine)

\* The productions of the source in declaration order, each with the
\* definition it stands in; production p of the grammar is the p-th, the
\* root production 0 being the front end's own.
RECURSIVE ProductionsFrom(_, _)
ProductionsFrom(defs, k) ==
    IF k > Len(defs) THEN <<>>
    ELSE LET ps == SelectSeq(defs[k].body, IsProductionLine)
         IN  [i \in DOMAIN ps |-> [owner |-> defs[k].name.name, line |-> ps[i]]]
               \o ProductionsFrom(defs, k + 1)

SourceProductions == ProductionsFrom(SelectSeq(input.code, IsDefinitionLine), 1)

DeclaredLevel(t) ==
    LET at == {i \in DOMAIN DeclaredPrecedence :
                 \E k \in DOMAIN DeclaredPrecedence[i].tokens :
                    DeclaredPrecedence[i].tokens[k].value = t}
    IN  IF at = {} THEN -1 ELSE (CHOOSE i \in at : TRUE) - 1

DeclaredAssoc(level) == DeclaredPrecedence[level + 1].type

\* The declared level of production p: of its %prec when the source gives
\* one, else of the rightmost terminal of its right-hand side; -1 if none.
DeclaredProductionLevel(p) ==
    LET rhs == Rhs(b.grammar, p)
        ts == {i \in DOMAIN rhs : rhs[i] \notin NonTerminals(b.grammar)}
        override == IF p \in DOMAIN SourceProductions
                    THEN SourceProductions[p].line.prec ELSE null
    IN  IF override # null THEN DeclaredLevel(override)
        ELSE IF ts = {} THEN -1
        ELSE DeclaredLevel(rhs[CHOOSE i \in ts : \A j \in ts : j <= i])

\* The (state, terminal, production) triples with a shift on the terminal
\* and a reduce by the production both possible.
ShiftReducePairs ==
    {x \in StateIds(b) \X Terminals(b.grammar) \X ProductionIds(b.grammar) :
        /\ ShiftCandidates(b, x[1], x[2]) # {}
        /\ x[3] \in ReducibleOn(b, x[1], x[2])}

ReduceDeclaredToWin(p, a) ==
    LET lp == DeclaredProductionLevel(p)
        la == DeclaredLevel(a)
    IN  /\ lp # -1
        /\ la # -1
        /\ \/ lp > la
           \/ lp = la /\ DeclaredAssoc(lp) = "left"

DeclaredNonAssociative(p, a) ==
    LET lp == DeclaredProductionLevel(p)
    IN  /\ lp # -1
        /\ lp = DeclaredLevel(a)
        /\ DeclaredAssoc(lp) = "none"

C7_NoneConflictIsFatal ==
    (/\ phase \notin {"hot", "building"}
     /\ \E x \in ShiftReducePairs : DeclaredNonAssociative(x[3], x[2]))
      => /\ phase = "conflict"
         /\ parser = NoParser
         /\ \A s \in StateIds(b), a \in LookaheadSymbols(b.grammar) : EntriesAt(s, a) = {}

\* Construction ended in the grammar conflict on a %none declaration that
\* holds a production's %prec symbol.
C7_Witness ==
    /\ phase = "conflict"
    /\ \E x \in ShiftReducePairs :
         /\ DeclaredNonAssociative(x[3], x[2])
         /\ x[3] \in DOMAIN SourceProductions
         /\ SourceProductions[x[3]].line.prec # null

\* At most one action for every (state, terminal) pair, and one for every
\* pair that had a candidate.
Deterministic ==
    \A s \in StateIds(b), a \in LookaheadSymbols(b.grammar) :
       Cardinality(EntriesAt(s, a)) = IF Candidates(b, s, a) = {} THEN 0 ELSE 1

\* C8 as stated: construction never ends in an error, whatever conflicts
\* the grammar has, and the table has at most one action per pair.
C8_NeverAborts ==
    /\ phase # "conflict"
    /\ phase \in {"built", "run"} => Deterministic

\* C8: construction ends in an error only for a shift/reduce pair whose
\* production and terminal share a declared level that is non-associative;
\* with any other conflicts it completes, and the table has at most one
\* action per (state, terminal) pair.
C8_AbortsOnlyOnNoneConflict ==
    /\ phase = "conflict" =>
         \E x \in ShiftReducePairs : DeclaredNonAssociative(x[3], x[2])
    /\ phase \in {"built", "run"} => Deterministic

\* A table built from a grammar with a pair that had several candidates.
C8_Witness ==
    /\ phase = "built"
    /\ \E s \in StateIds(b), a \in LookaheadSymbols(b.grammar) :
         /\ Cardinality(Candidates(b, s, a)) > 1
         /\ Cardinality(EntriesAt(s, a)) = 1

\* The (state, terminal) pairs where two or more productions can be reduced.
ReduceReducePairs ==
    {x \in StateIds(b) \X LookaheadSymbols(b.grammar) :
        Cardinality(ReducibleOn(b, x[1], x[2])) >= 2}

IsLegalItem(g, it) ==
    /\ it.p \in ProductionIds(g)
    /\ it.dot \in 0..Len(Rhs(g, it.p))
    /\ it.la \in LookaheadSymbols(g)

\* C10: the registered states are pairwise different sets of legal items,
\* of which there are finitely many; every registered state is enqueued
\* once, so the loop has run as many times as there are states not in the
\* queue; and when the queue is empty every goto of every state is a
\* registered state: the loop ends, at the fixpoint.
C10_WorklistTerminates ==
    phase # "hot" =>
      LET g == b.grammar
      IN  /\ \A i, j \in DOMAIN b.states : b.states[i] = b.states[j] => i = j
          /\ \A i \in DOMAIN b.states : \A it \in b.states[i] : IsLegalItem(g, it)
          /\ \A i, j \in DOMAIN b.queue : b.queue[i] = b.queue[j] => i = j
          /\ \A i \in DOMAIN b.queue : b.queue[i] \in StateIds(b)
          /\ b.iterations + Len(b.queue) = Len(b.states)
          /\ (phase = "building" /\ Len(b.queue) = 0) =>
               \A s \in StateIds(b), X \in Symbols(g) :
                  LET J == goto(g, Nullable(g), First(g), b.states[s + 1], X)
                  IN  J # {} => \E t \in StateIds(b) :
                                   /\ b.states[t + 1] = J
                                   /\ [from |-> s, sym |-> X, to |-> t] \in b.trans

\* The loop has ended after meeting goto results that were already known.
C10_Witness ==
    /\ phase = "building"
    /\ Len(b.queue) = 0
    /\ Cardinality(b.trans) > Len(b.states)

(***************************************************************************)
(* Two instances of one generated parser                                   *)
(***************************************************************************)
\* The most calls made on one instance.
MaxCalls == 3

\* The grammars this part is run on.
PairInputs ==
    {i \in ListInputs : /\ i.code[1].body[1].code = "node"
                         /\ i.code[1].body[2].code = "node"
                         /\ i.rootName = null}
      \cup {i \in UnaryInputs : Len(i.code) = 1}

\* new Parser(...): an instance with the calls made on it so far.
NewSession == [inst |-> NewInstance, calls |-> <<>>, returned |-> <<>>]

\* The number of push calls among calls.
Pushes(calls) == Len(SelectSeq(calls, LAMBDA c : c # <<>>))

\* One call on a session: calls is extended by <<token>> for a push and by
\* <<>> for a finish.
PushTo(p, session, token) ==
    [inst |-> push(p, session.inst, token).inst,
     calls |-> Append(session.calls, <<token>>),
     returned |-> session.returned]

FinishOn(p, session) ==
    [inst |-> finish(p, session.inst).inst,
     calls |-> Append(session.calls, <<>>),
     returned |-> session.returned \o finish(p, session.inst).result]

\* A session run alone: the calls made one after the other on a new instance.
RECURSIVE RunAlone(_, _)
RunAlone(p, calls) ==
    IF Len(calls) = 0 THEN NewSession
    ELSE LET before == RunAlone(p, SubSeq(calls, 1, Len(calls) - 1))
             c == calls[Len(calls)]
         IN  IF c = <<>> THEN FinishOn(p, before) ELSE PushTo(p, before, c[1])

InitPair ==
    /\ input \in PairInputs
    /\ cold = [grammar |-> 1, actions |-> toGrammar(input.code, input.rootName).actions]
    /\ cg = cook(cold)
    /\ LET started == generateParsingTable(<<toGrammar(input.code, input.rootName).grammar>>, cg)
           done == RunWorklist(started.b)
       IN  /\ heap = started.heap
           /\ b = done
           /\ parser = parserFactory(MakeTable(done), cg.actions)
           /\ builds = <<[hot |-> 0, from |-> started.heap[cg.grammar], object |-> done.object,
                          fatal |-> FALSE,
                          parser |-> parserFactory(MakeTable(done), cg.actions)]>>
    /\ hots = <<>>
    /\ given = <<>>
    /\ phase = "run"
    /\ inst = NewInstance
    /\ driver = "none"
    /\ npushed = 0
    /\ last = NoCall
    /\ returned = <<>>
    /\ thrown = <<>>
    /\ pair = <<NewSession, NewSession>>
    /\ front = NoFront

pairFrame == <<input, cg, phase, b, inst, driver, npushed, last, returned, thrown,
               heap, cold, hots, builds, given, front>>

\* A push whose stack is kept in the parser, for every instance of it.
PairPushSharedStack ==
    /\ \E i \in DOMAIN pair, type \in TokenTypes :
         /\ Len(pair[i].calls) < MaxCalls
         /\ LET after == PushTo(parser, pair[i], Token(type, Pushes(pair[i].calls)))
            IN  pair' = [k \in DOMAIN pair |->
                           IF k = i THEN after
                           ELSE [pair[k] EXCEPT !.inst.stack = after.inst.stack]]
    /\ UNCHANGED parser
    /\ UNCHANGED pairFrame

\* push(token) on one of the two instances.
PairPush ==
    /\ \E i \in DOMAIN pair, type \in TokenTypes :
         /\ Len(pair[i].calls) < MaxCalls
         /\ pair' = [pair EXCEPT ![i] = PushTo(parser, @, Token(type, Pushes(@.calls)))]
    /\ UNCHANGED parser
    /\ UNCHANGED pairFrame

\* finish() on one of the two instances.
PairFinish ==
    /\ \E i \in DOMAIN pair :
         /\ Len(pair[i].calls) < MaxCalls
         /\ pair' = [pair EXCEPT ![i] = FinishOn(parser, @)]
    /\ UNCHANGED parser
    /\ UNCHANGED pairFrame

NextPair ==
    \/ PairPush
    \/ PairFinish

SpecPair == InitPair /\ [][NextPair]_vars

ArithmeticInput ==
    [code |-> <<
        PrecLine("left", <<"+", "-">>),
        PrecLine("left", <<"*", "/">>),
        PrecLine("none", <<"unary">>),
        PrecLine("right", <<"^">>),
        DefLine("expression", <<
            ProdLine(<<Str("number")>>, "parseFloat $[0]", null),
            ProdLine(<<Str("("), Id("expression"), Str(")")>>, "$[1]", null),
            ProdLine(<<Id("expression"), Str("^"), Id("expression")>>, "$[0] ** $[2]", null),
            ProdLine(<<Id("expression"), Str("*"), Id("expression")>>, "$[0] * $[2]", null),
            ProdLine(<<Id("expression"), Str("/"), Id("expression")>>, "$[0] / $[2]", null),
            ProdLine(<<Id("expression"), Str("+"), Id("expression")>>, "$[0] + $[2]", null),
            ProdLine(<<Id("expression"), Str("-"), Id("expression")>>,
                     "a = $[0]; b = $[2]; a + b", null),
            ProdLine(<<Str("+"), Id("expression")>>, "+$[1]", "unary"),
            ProdLine(<<Str("-"), Id("expression")>>, "-$[2]", "unary")>>),
        DefLine("root", <<ProdLine(<<Id("expression")>>, null, null)>>)>>,
     rootName |-> null]

\* A lexed token of an expression: its type and its text.
Lexeme(text) ==
    [type |-> IF text \in {"0", "1", "2", "3", "4"} THEN "number" ELSE text, text |-> text]

Lexed(texts) == [i \in DOMAIN texts |-> Lexeme(texts[i])]

OnePlusTwoTimesThree == Lexed(<<"1", "+", "2", "*", "3">>)

TwoPowThreePowTwo == Lexed(<<"2", "^", "3", "^", "2">>)

MinusTwoPowTwo == Lexed(<<"-", "2", "^", "2">>)

\* The expressions pushed.
Scripts ==
    {OnePlusTwoTimesThree, TwoPowThreePowTwo, MinusTwoPowTwo,
     Lexed(<<"(", "1", "+", "2", ")", "*", "3">>),
     Lexed(<<"2", "*", "3", "+", "1">>),
     Lexed(<<"4", "/", "2", "/", "2">>),
     Lexed(<<"3", "-", "1">>),
     Lexed(<<"+", "2", "*", "3">>),
     Lexed(<<"-", "2", "+", "3">>),
     Lexed(<<"2", "^", "-", "2">>),
     Lexed(<<"3", "*", "(", "4", "-", "1", ")">>),
     Lexed(<<"4", "^", "2", "/", "2">>),
     Lexed(<<"1", "+", "*">>)}

\* The k-th token of a script, with its text as value.
ScriptToken(lexeme, k) ==
    [type |-> lexeme.type,
     value |-> Text(lexeme.text),
     loc |-> [start |-> k, end |-> k + 1],
     source |-> Source,
     range |-> <<k, k + 1>>]

\* The calls that push a script's tokens in order.
PushesOf(script) == [k \in DOMAIN script |-> <<ScriptToken(script[k], k - 1)>>]

InitArithmetic ==
    /\ input = ArithmeticInput
    /\ heap = <<toGrammar(input.code, input.rootName).grammar>>
    /\ cold = [grammar |-> 1, actions |-> toGrammar(input.code, input.rootName).actions]
    /\ cg = cook(cold)
    /\ hots = <<>>
    /\ builds = <<>>
    /\ given = <<>>
    /\ phase = "hot"
    /\ b = NoBuilder
    /\ parser = NoParser
    /\ inst = NewInstance
    /\ driver = "none"
    /\ npushed = 0
    /\ last = NoCall
    /\ returned = <<>>
    /\ thrown = <<>>
    /\ pair = <<>>
    /\ front = NoFront

arithmeticFrame == <<input, cg, b, parser, inst, driver, npushed, last, returned, thrown,
                     heap, cold, hots, builds, given, front>>

\* new Parser(...) for one expression.
NewScript ==
    /\ phase = "built"
    /\ phase' = "run"
    /\ pair' = <<NewSession>>
    /\ UNCHANGED arithmeticFrame

\* The next token of an expression is pushed.
FeedPush ==
    /\ phase = "run"
    /\ \E script \in Scripts :
         LET k == Len(pair[1].calls)
         IN  /\ k < Len(script)
             /\ pair[1].calls = SubSeq(PushesOf(script), 1, k)
             /\ pair' = <<PushTo(parser, pair[1], ScriptToken(script[k + 1], k))>>
    /\ UNCHANGED <<phase, arithmeticFrame>>

\* All of an expression is pushed: finish.
FeedFinish ==
    /\ phase = "run"
    /\ \E script \in Scripts : pair[1].calls = PushesOf(script)
    /\ pair' = <<FinishOn(parser, pair[1])>>
    /\ UNCHANGED <<phase, arithmeticFrame>>

NextArithmetic ==
    \/ GenerateParser
    \/ BuildStep
    \/ BuildTable
    \/ NewScript
    \/ FeedPush
    \/ FeedFinish

SpecArithmetic == InitArithmetic /\ [][NextArithmetic]_vars

\* Whether the expression has been pushed and finish called, once.
Finished(script) == pair # <<>> /\ pair[1].calls = Append(PushesOf(script), <<>>)

\* C13: with the README's grammar, `1 + 2 * 3` yields 7, `2 ^ 3 ^ 2`
\* yields 512 and `-2 ^ 2` yields -4.
C13_ArithmeticValues ==
    /\ Finished(OnePlusTwoTimesThree) => pair[1].returned = <<Number(7)>>
    /\ Finished(TwoPowThreePowTwo) => pair[1].returned = <<Number(512)>>
    /\ Finished(MinusTwoPowTwo) => pair[1].returned = <<Number(0 - 4)>>

\* `-2 ^ 2` has been pushed and finished: the unary production was reduced
\* last of the expression's, over the value 4 of `2 ^ 2`, and its snippet
\* `-$[2]`, reading past its two values, made the result NaN.
C13_Witness ==
    /\ Finished(MinusTwoPowTwo)
    /\ pair[1].inst.mode = "Accepted"
    /\ pair[1].returned = <<NaN>>
    /\ LET before == RunAlone(parser, PushesOf(MinusTwoPowTwo)).inst
           events == finish(parser, before).events
       IN  \E i \in DOMAIN events :
              /\ events[i].kind = "reduce"
              /\ Rhs(b.grammar, events[i].p) = <<"-", "expression">>
              /\ events[i].children = <<Text("-"), Number(4)>>

Augmented ==
    [k \in DOMAIN given |->
        [type |-> given[k].nt, production |-> given[k].tokens, prec |-> null]]

\* C14: whatever generateParser calls have been made, the grammar a
\* CraneGrammar holds has the root and precedence toGrammar gave it, and
\* its production list is the one toGrammar gave it followed by what
\* augment calls appended: no call of the builder has added to it or
\* changed it.
C14_GenerateLeavesGrammar ==
    LET original == toGrammar(input.code, input.rootName).grammar
    IN  \A holder \in {cold, cg} \cup {hots[i] : i \in DOMAIN hots} :
           LET held == heap[holder.grammar]
           IN  /\ held.root = original.root
               /\ held.precedence = original.precedence
               /\ held.productions = original.productions \o Augmented

\* Two tables have been generated, the first of them before an augment
\* call and the second after it.
C14_Witness ==
    /\ Len(builds) = 2
    /\ Len(given) > 0
    /\ builds[1].from = toGrammar(input.code, input.rootName).grammar
    /\ builds[2].from = heap[cold.grammar]
    /\ builds[2].from # builds[1].from

\* The productions the augment calls made on cooked grammar i have
\* appended, in order.
AugmentedBy(i) ==
    LET own == SelectSeq(given, LAMBDA c : c.hot = i)
    IN  [k \in DOMAIN own |->
            [type |-> own[k].nt, production |-> own[k].tokens, prec |-> null]]

\* C15: whatever augment calls have been made on cooked grammars, the cold
\* grammar's production list is the one toGrammar gave it, and each cooked
\* grammar's is that list followed by what its own augment calls appended.
C15_AugmentIsolated ==
    LET original == toGrammar(input.code, input.rootName).grammar
    IN  /\ heap[cold.grammar].productions = original.productions
        /\ \A i \in DOMAIN hots :
              heap[hots[i].grammar].productions = original.productions \o AugmentedBy(i)

\* One cooked grammar has been augmented, and the production shows in the
\* cold grammar and in the other cooked grammar, which was not augmented.
C15_Witness ==
    /\ Len(hots) = 2
    /\ Len(given) = 1
    /\ given[1].hot = 1
    /\ hots[2].grammar = cold.grammar
    /\ LET list == heap[cold.grammar].productions
       IN  /\ Len(list) = given[1].length + 1
           /\ list[Len(list)].type = given[1].nt
           /\ heap[hots[2].grammar].productions = list

\* A reduce step of the last call whose action raised a failure.
Raising(i) ==
    /\ i \in DOMAIN last.events
    /\ last.events[i].kind = "reduce"
    /\ last.events[i].threw # <<>>

\* C16: when an action raises a failure during a reduce step of a push or
\* a finish, the call ends at that step and signals that very failure:
\* the value the action raised, not an Unexpected-Token or Premature-End
\* failure and not a copy with another message; no shift follows and no
\* result is returned.  compile, as a caller, lets the failure through
\* from finish and rethrows it with the token's position from push.
C16_ActionErrorPropagates ==
    (last.op \in {"push", "finish"} /\ \E i \in DOMAIN last.events : Raising(i))
      => LET n == Len(last.events)
             e == last.events[n]
         IN  /\ Raising(n)
             /\ \A i \in 1..(n - 1) : ~Raising(i) /\ last.events[i].kind = "reduce"
             /\ ApplyAction(DeclaredCode(e.p), e.children, e.loc, e.p, e.context)
                  = Thrown(last.error[1])
             /\ last.outcome = "ActionError"
             /\ last.error = e.threw
             /\ last.error[1].kind \notin {"UnexpectedToken", "PrematureEnd"}
             /\ last.result = <<>>
             /\ returned = <<>>
             /\ inst.stack = e.after
             /\ driver = "threw"
                  => thrown = IF last.op = "push"
                              THEN <<Rethrow(last.error[1].message, last.token[1])>>
                              ELSE <<last.error[1].message>>

\* A push on a stack of several frames in which a reduction's action
\* raised a failure.
C16_Witness ==
    /\ last.op = "push"
    /\ last.outcome = "ActionError"
    /\ Len(last.pre.stack) >= 2
    /\ Raising(Len(last.events))

\* The source without its precedence section and without any %prec.
NoPrecedence(code) ==
    LET kept == SelectSeq(code, IsDefinitionLine)
    IN  [k \in DOMAIN kept |->
           [kept[k] EXCEPT !.body =
              [i \in DOMAIN kept[k].body |->
                 IF IsProductionLine(kept[k].body[i])
                 THEN [kept[k].body[i] EXCEPT !.prec = null]
                 ELSE kept[k].body[i]]]]

\* The table generateParser builds for a source.
TableOf(code, rootName) ==
    MakeTable(RunWorklist(BuilderInit(clone(toGrammar(code, rootName).grammar), 0)))

\* No (state, terminal) pair has more than one candidate action.
ConflictFree ==
    \A s \in StateIds(b), a \in LookaheadSymbols(b.grammar) :
       Cardinality(Candidates(b, s, a)) <= 1

\* C17: for a grammar with no LR(1) conflict, construction completes and
\* the table is the one built from the same source with the precedence
\* section and every %prec removed; so the table is the same under every
\* choice of declarations and overrides.
C17_PrecedenceIrrelevant ==
    (phase \in {"built", "conflict"} /\ ConflictFree)
      => /\ phase = "built"
         /\ parser.table = TableOf(NoPrecedence(input.code), input.rootName)

\* A table built from a conflict-free grammar in which a reduce is kept
\* for a terminal declared above its production, the production's level
\* being set by %prec.
C17_Witness ==
    /\ phase = "built"
    /\ ConflictFree
    /\ \E s \in StateIds(b), a \in Terminals(b.grammar), p \in ProductionIds(b.grammar) :
         /\ EntriesAt(s, a) = {Reduce(p)}
         /\ ProductionAt(b.grammar, p).prec # null
         /\ ProductionLevel(b.grammar, p) # -1
         /\ ProductionLevel(b.grammar, p) < LevelOf(b.grammar.precedence, a)

\* A value without the locations its nodes took from the context.
RECURSIVE Erased(_)
Erased(v) ==
    IF v.kind = "node"
    THEN [v EXCEPT !.loc = NoLoc, !.kids = [i \in DOMAIN v.kids |-> Erased(v.kids[i])]]
    ELSE v

ErasedStack(stack) == [i \in DOMAIN stack |-> [stack[i] EXCEPT !.value = Erased(@)]]

StatesOf(stack) == [i \in DOMAIN stack |-> stack[i].state]

\* The instance as it is with no hook installed and the context's loc
\* never set.
WithoutHook(instance) ==
    [instance EXCEPT !.onreducestart = null, !.context = [loc |-> NoLoc]]

\* The last call made on an instance instead.
CallOn(instance) ==
    IF last.op = "push" THEN push(parser, instance, last.token[1])
    ELSE finish(parser, instance)

\* The merged location of the frames a reduce event popped.
OwnLoc(e) ==
    LET n == Len(e.children)
        depth == Len(e.before)
    IN  MergedLoc(SubSeq(e.before, depth - n + 1, depth), SubSeq(e.before, 1, depth - n))

\* In the last call, made with the hook installed: the hook was given each
\* reduction's left-hand symbol and merged location, once and before the
\* action, which saw that location in the context.
HookSeesEachReduction ==
    \A i \in DOMAIN last.events :
      LET e == last.events[i]
      IN  e.kind = "reduce" =>
            /\ e.hook = <<[type |-> Lhs(b.grammar, e.p), loc |-> OwnLoc(e)]>>
            /\ e.context.loc = <<OwnLoc(e)>>
            /\ (e.called /\ e.threw = <<>> /\ DeclaredCode(e.p) = "node")
                 => e.after[Len(e.after)].value.loc = <<OwnLoc(e)>>

\* The last call made a call with the same shifts and reduces, in the same
\* states, as call u.
SameSteps(u) ==
    /\ u.outcome = last.outcome
    /\ u.inst.mode = inst.mode
    /\ StatesOf(u.inst.stack) = StatesOf(inst.stack)
    /\ Len(u.events) = Len(last.events)
    /\ \A i \in DOMAIN last.events :
         /\ u.events[i].kind = last.events[i].kind
         /\ StatesOf(u.events[i].after) = StatesOf(last.events[i].after)
         /\ last.events[i].kind = "reduce" => u.events[i].p = last.events[i].p
         /\ last.events[i].kind = "shift" => u.events[i].token = last.events[i].token

Hooked == last.op \in {"push", "finish"} /\ last.pre.onreducestart # null

\* C18 as stated: with the hook installed, it is called once per reduction
\* before the action with the left-hand symbol and the merged location,
\* which the action sees; and the call makes the same shifts and reduces
\* and leaves the same stack states and values and the same result as it
\* does with no hook installed.
C18_HookChangesNothing ==
    Hooked =>
      LET u == CallOn(WithoutHook(last.pre))
      IN  /\ HookSeesEachReduction
          /\ SameSteps(u)
          /\ [i \in DOMAIN inst.stack |-> inst.stack[i].value]
                = [i \in DOMAIN u.inst.stack |-> u.inst.stack[i].value]
          /\ last.result = u.result

\* C18: with the hook installed, it is called once per reduction before
\* the action with the left-hand symbol and the merged location, which
\* the action sees; and the call makes the same shifts and reduces and
\* leaves the same stack states as with no hook installed, and the same
\* values and result but for the location the nodes take from what the
\* hook recorded.
C18_HookObserves ==
    Hooked =>
      LET u == CallOn([WithoutHook(last.pre) EXCEPT !.stack = ErasedStack(@)])
      IN  /\ HookSeesEachReduction
          /\ SameSteps(u)
          /\ ErasedStack(inst.stack) = u.inst.stack
          /\ [i \in DOMAIN last.result |-> Erased(last.result[i])] = u.result

\* A call with the hook installed that made two reductions at different
\* locations, the second calling an action that builds a node.
C18_Witness ==
    /\ Hooked
    /\ \E i, j \in DOMAIN last.events :
         /\ i < j
         /\ last.events[i].kind = "reduce"
         /\ last.events[j].kind = "reduce"
         /\ last.events[i].loc # last.events[j].loc
         /\ last.events[j].called
         /\ last.events[j].threw = <<>>
         /\ DeclaredCode(last.events[j].p) = "node"

(***************************************************************************)
(* toGrammar, one scope at a time                                          *)
(***************************************************************************)
\* The macro calls used: a list of 'a', and a list of A.C separated by ','.
MacroCalls ==
    {Call("multiple", <<<<Str("a")>>>>),
     Call("multiple", <<<<Address(<<"A", "C">>)>>, <<Str(",")>>>>)}

\* The bodies of A: a production over its nested C, the definition of C and
\* a production with a macro call, in every order.
BodiesOfA ==
    LET lines(m) == {ProdLine(<<Id("C"), Str("x")>>, "node", null),
                     DefLine("C", <<ProdLine(<<Str("c")>>, "node", null)>>),
                     ProdLine(<<m, Id("B")>>, null, null)}
    IN  UNION {{t \in lines(m) \X lines(m) \X lines(m) :
                    t[1] # t[2] /\ t[1] # t[3] /\ t[2] # t[3]} : m \in MacroCalls}

BodiesOfB ==
    {<<ProdLine(<<Str("b")>>, "node", null)>>,
     <<ProdLine(<<Str("b"), Call("multiple", <<<<Address(<<"A">>)>>>>)>>, "node", null)>>}

\* A and B in either order, after a precedence section or none, with every
\* kind of root name.
FrontInputs ==
    {[code |-> precs \o defs, rootName |-> r] :
        precs \in {<<>>, <<PrecLine("left", <<"x">>)>>},
        defs \in UNION {{<<DefLine("A", x), DefLine("B", y)>>,
                         <<DefLine("B", y), DefLine("A", x)>>} :
                           x \in BodiesOfA, y \in BodiesOfB},
        r \in {null, "", "B", "A.C"}}

InitFront ==
    /\ input \in FrontInputs
    /\ front = Enqueued(<<[body |-> input.code, name |-> "", vars |-> EmptyVars]>>,
                        <<>>, <<>>)
    /\ heap = <<>>
    /\ cold = [grammar |-> 0, actions |-> EmptyVars]
    /\ cg = cook(cold)
    /\ hots = <<>>
    /\ builds = <<>>
    /\ given = <<>>
    /\ phase = "front"
    /\ b = NoBuilder
    /\ parser = NoParser
    /\ inst = NewInstance
    /\ driver = "none"
    /\ npushed = 0
    /\ last = NoCall
    /\ returned = <<>>
    /\ thrown = <<>>
    /\ pair = <<>>

\* One turn of toGrammar's loop.
DequeueScope ==
    /\ phase = "front"
    /\ Len(front.defs) > 0
    /\ front.error = null
    /\ front' = Dequeued(front, input.rootName)
    /\ UNCHANGED <<input, heap, lifecycleVars, sessionVars, pair>>

\* The loop is over: new Grammar(list.map(...), 0, precedence) and the
\* ColdCraneGrammar over it.
NewGrammar ==
    /\ phase = "front"
    /\ Len(front.defs) = 0
    /\ front.error = null
    /\ heap' = <<Grammar([i \in DOMAIN front.list |-> extractor(front.list[i])], 0,
                         front.precedence)>>
    /\ cold' = [grammar |-> 1, actions |-> ActionsOf(front.list)]
    /\ cg' = cook(cold')
    /\ phase' = "hot"
    /\ UNCHANGED <<input, hots, builds, given, b, parser, inst, driver, npushed, last,
                   returned, thrown, pair, front>>

NextFront == DequeueScope \/ NewGrammar

SpecFront == InitFront /\ [][NextFront]_vars

\* The first non-terminal defined at the top level of the source.
FirstDeclared == SelectSeq(input.code, IsDefinitionLine)[1].name.name

\* C19: once the top level of the source is scanned, entry 0 of the list is the
\* production of `$$$` with exactly one symbol, the root name when one is
\* given and else the first non-terminal declared at the top level, and no
\* other entry is a production of `$$$`; the grammar made of the list has
\* these productions and root index 0.
C19_SingleRootProduction ==
    /\ (phase = "front" /\ \A k \in DOMAIN front.defs : front.defs[k].name # "")
         => /\ Len(front.list) >= 1
            /\ front.list[1].type = "$$$"
            /\ front.list[1].production
                  = <<IF input.rootName \notin {null, ""} THEN input.rootName
                      ELSE FirstDeclared>>
            /\ \A k \in 2..Len(front.list) : front.list[k].type # "$$$"
    /\ phase = "hot"
         => LET g == heap[cold.grammar]
            IN  /\ g = toGrammar(input.code, input.rootName).grammar
                /\ g.root = 0
                /\ g.productions = [i \in DOMAIN front.list |-> extractor(front.list[i])]
                /\ Lhs(g, 0) = "$$$"
                /\ Len(Rhs(g, 0)) = 1
                /\ \A p \in ProductionIds(g) \ {0} : Lhs(g, p) # "$$$"

\* A grammar made from a source whose first definition holds a nested
\* definition and a macro call, so that the list holds productions of
\* nested and of generated non-terminals, under a given root name.
C19_Witness ==
    /\ phase = "hot"
    /\ input.rootName = "B"
    /\ FirstDeclared = "A"
    /\ \E p, q \in ProductionIds(heap[cold.grammar]) :
         /\ Lhs(heap[cold.grammar], p) = "A.C"
         /\ Lhs(heap[cold.grammar], q) = "$__2"

\* C20: on every cooked grammar, after any augment calls: the production
\* each call appended has the id the list's length was when the call was
\* made; the action the call was given is stored under that id, and
\* nothing is stored for a call given none; every action stored before a
\* call is still stored under its id; and every key of the actions is the
\* id of a production of the grammar, with the action toGrammar compiled
\* for it or the action the call that appended it was given.
C20_ActionsAligned ==
    \A i \in DOMAIN hots :
      LET g == heap[hots[i].grammar]
          acts == hots[i].actions
          calls == {k \in DOMAIN given : given[k].hot = i}
      IN  /\ \A k \in calls :
                /\ given[k].length \in ProductionIds(g)
                /\ Lhs(g, given[k].length) = given[k].nt
                /\ Rhs(g, given[k].length) = given[k].tokens
                /\ IF given[k].action # null
                   THEN /\ given[k].length \in DOMAIN acts
                        /\ acts[given[k].length] = given[k].action
                   ELSE given[k].length \notin DOMAIN acts
                /\ \A key \in DOMAIN given[k].actions :
                      /\ key \in DOMAIN acts
                      /\ acts[key] = given[k].actions[key]
          /\ \A key \in DOMAIN acts :
                /\ key \in ProductionIds(g)
                /\ \/ /\ key \in DOMAIN cold.actions
                      /\ acts[key] = cold.actions[key]
                      /\ acts[key] = DeclaredCode(key)
                   \/ \E k \in calls :
                         /\ given[k].length = key
                         /\ given[k].action = acts[key]

\* A cooked grammar augmented twice with an action, the second time after
\* its first action was stored.
C20_Witness ==
    \E i \in DOMAIN hots :
       /\ Len(given) = 2
       /\ given[1].hot = i
       /\ given[2].hot = i
       /\ given[1].action # null
       /\ given[2].action # null
       /\ DOMAIN cold.actions # {}
       /\ Cardinality(DOMAIN hots[i].actions) = Cardinality(DOMAIN cold.actions) + 2
====
